---- MODULE Spec2Model ----
(***************************************************************************)
(* A model of ConvoLyzer's audio transcription pipeline.                   *)
(*                                                                         *)
(*   - WhisperService (src/src/services/AudioAnalysisService.ts): the      *)
(*     browser-side fallback chain transcribeAudio -> POST /api/transcribe *)
(*     -> transcribeLocally, with the shared `transcriber` model cache     *)
(*     guarded by the `loading` flag.                                      *)
(*   - POST /api/transcribe and transcribeWithWhisper                      *)
(*     (src/unnamed/part_002): the express handler and the Python Whisper  *)
(*     child process it spawns.                                            *)
(*                                                                         *)
(* JavaScript runs each handler to its next `await` without interleaving,  *)
(* so one action is one synchronous segment of a handler (with the         *)
(* microtask continuations that follow it immediately).                    *)
(***************************************************************************)
EXTENDS Integers, Sequences, FiniteSets, TLC

\* Number of transcribeAudio calls that may be in flight on the one
\* exported whisperService instance.
NumCalls == 2

Calls == 1..NumCalls

VARIABLES
    pc,             \* pc[c]: where call c of transcribeAudio is suspended
    file,           \* file[c]: the File handed to call c
    net,            \* net[c]: the axios request of call c and its answer
    remoteOutcome,  \* remoteOutcome[c]: how the remote attempt of c ended
    localCalls,     \* localCalls[c]: how often call c invoked transcribeLocally
    localOutcome,   \* localOutcome[c]: how the transcribeLocally promise of c settled
    result,         \* result[c]: the TranscriptionResult call c resolved with
    err,            \* err[c]: message of the Error call c rejected with
    log,            \* log[c]: the failure lines call c wrote to the console
    model,          \* model[c]: the instance loadModel handed to call c
    url,            \* url[c]: the blob URL of call c
    transcriber,    \* WhisperService.transcriber (0 is null)
    loading,        \* WhisperService.loading
    pipelines,      \* number of pipeline() constructions started so far
    srv,            \* srv[c]: where the POST /api/transcribe handler stands
    child,          \* child[c]: the Whisper child process of request c
    outputData,     \* outputData[c]: stdout accumulated by transcribeWithWhisper
    errorData,      \* errorData[c]: stderr accumulated by transcribeWithWhisper
    upload,         \* upload[c]: whether multer's temp file of request c exists
    res,            \* res[c]: the express response of request c
    outcome,        \* outcome[c]: how the transcribeWithWhisper promise of c settled
    conv,           \* the one convertToFloat32Array call: its position and
                    \* the AudioContext it created
    api,            \* api[r]: request r of the pages/api transcribe handler
    modelDownloaded,\* the module-level flag of the pages/api handler
    wavc,           \* wavc[k]: call k of convertAudioToWav and its temp files
    pcm,            \* the decoded buffer given to convertToFloat32Array and
                    \* the samples it returns
    asm,            \* the raw backend output given to the chunk assembly of
                    \* transcribeWithSarvam or transcribeLocally, and its result
    arrived,        \* arrived[c]: the 'data' events of the child of request c,
                    \* in the order they were emitted
    disk,           \* the temp directory of convertAudioToWav: path -> content
    now,            \* Date.now() of the server, in milliseconds
    ui,             \* the state of the InterviewPractice component
    gen             \* the one generateInterviewQuestions call and its result

clientVars == <<pc, file, net, remoteOutcome, localCalls, localOutcome, result, err, log,
                model, url, transcriber, loading, pipelines>>
serverVars == <<srv, child, outputData, errorData, upload, res, outcome>>
sideVars == <<api, modelDownloaded, wavc, pcm, asm, arrived, disk, now, ui, gen>>
notApi == <<wavc, pcm, asm, arrived, disk, now, ui, gen>>
notWav == <<api, modelDownloaded, pcm, asm, arrived, ui, gen>>
notPcm == <<api, modelDownloaded, wavc, asm, arrived, disk, now, ui, gen>>
notAsm == <<api, modelDownloaded, wavc, pcm, arrived, disk, now, ui, gen>>
notArrived == <<api, modelDownloaded, wavc, pcm, asm, disk, now, ui, gen>>
notUi == <<api, modelDownloaded, wavc, pcm, asm, arrived, disk, now, gen>>
notGen == <<api, modelDownloaded, wavc, pcm, asm, arrived, disk, now, ui>>
vars == <<pc, file, net, remoteOutcome, localCalls, localOutcome, result, err,
          log, model,
          url, transcriber, loading, pipelines, srv, child, outputData,
          errorData, upload, res, outcome, conv, api, modelDownloaded, wavc,
          pcm, asm, arrived, disk, now, ui, gen>>

----------------------------------------------------------------------------
(* Strings.  A string the code inspects is a sequence of characters (or of *)
(* aligned pieces), so that startsWith and emptiness are computed.         *)

Empty == <<>>
Blank == <<" ">>
Hi == <<"h", "i">>
Hello == <<"h", "e", "l", "l", "o">>

\* String.prototype.startsWith
StartsWith(s, p) == Len(p) <= Len(s) /\ SubSeq(s, 1, Len(p)) = p

\* Truthiness of a JavaScript string that may be undefined.
Truthy(v) == v.defined /\ v.str # Empty

Undefined == [defined |-> FALSE, str |-> Empty]
Str(s) == [defined |-> TRUE, str |-> s]

----------------------------------------------------------------------------
(* Inputs.                                                                 *)

AudioWav == <<"audio/", "w", "a", "v">>
AudioMp3 == <<"audio/", "m", "p", "3">>
AudioMpeg == <<"audio/", "m", "p", "e", "g">>
AudioWave == <<"audio/", "w", "a", "v", "e">>
AudioOgg == <<"audio/", "o", "g", "g">>

supportedFormats == {AudioWav, AudioMp3, AudioMpeg}

maxSize == 25 * 1024 * 1024

\* The files a caller may hand in: declared MIME type, size in bytes, and
\* whether the browser's <audio> element can ever play the blob
\* ('canplaythrough' fires) or not.
Files ==
    { [type |-> AudioWav, size |-> maxSize, playable |-> TRUE],
      [type |-> AudioWave, size |-> 1024, playable |-> FALSE],
      [type |-> AudioOgg, size |-> 1024, playable |-> TRUE],
      [type |-> AudioMpeg, size |-> maxSize + 1, playable |-> TRUE] }

NoFile == [type |-> Empty, size |-> 0, playable |-> FALSE]

----------------------------------------------------------------------------
(* HTTP.  What the endpoint behind '/api/transcribe' may answer.           *)

Chunk(t, s, e) == [text |-> t, start |-> s, end |-> e]

NoChunks == [defined |-> FALSE, list |-> <<>>]
Chunks(l) == [defined |-> TRUE, list |-> l]

Idle == [st |-> "none", status |-> 0, text |-> Undefined, chunks |-> NoChunks]
Sent == [st |-> "sent", status |-> 0, text |-> Undefined, chunks |-> NoChunks]
Closed == [st |-> "closed", status |-> 0, text |-> Undefined, chunks |-> NoChunks]
Timeout == [st |-> "timeout", status |-> 0, text |-> Undefined, chunks |-> NoChunks]
NetworkError == [st |-> "neterr", status |-> 0, text |-> Undefined, chunks |-> NoChunks]
Response(status, text, chunks) ==
    [st |-> "resp", status |-> status, text |-> text, chunks |-> chunks]

\* Answers of an arbitrary endpoint: a transcript, a blank or empty text,
\* an error status, a connection failure (no answer at all ends in
\* AxiosTimeout); a 2xx body without a text field is what the express
\* server answers a failed transcription with (MessageBody).
Responses ==
    { Response(200, Str(Hi), Chunks(<<Chunk(Str(Hi), 0, 1)>>)),
      Response(200, Str(Hi), NoChunks),
      Response(200, Str(Blank), Chunks(<<>>)),
      Response(200, Str(Empty), Chunks(<<>>)),
      Response(500, Undefined, NoChunks),
      NetworkError }

\* What the in-process pipeline may resolve with (return_timestamps: true).
LocalResults ==
    { [text |-> Hello, chunks |-> <<Chunk(Str(Hello), 0, 2)>>],
      [text |-> Empty, chunks |-> <<>>] }

\* What the alternative pipeline (no timestamps) may resolve with.
AltTexts == {Hi}

NoResult == [text |-> <<"<none>">>, chunks |-> <<>>]

\* axios resolves for a 2xx status and rejects for every other one.
AxiosResolves(r) == r.st = "resp" /\ r.status \in 200..299

StatusText(n) ==
    CASE n = 400 -> "400" [] n = 500 -> "500" [] OTHER -> "non-2xx"

\* apiError.message, or what line 499 reports.
RemoteFailure(r) ==
    CASE r.st = "timeout" -> <<"timeout of 30000ms exceeded">>
      [] r.st = "neterr" -> <<"Network Error">>
      [] r.st = "resp" /\ ~AxiosResolves(r) ->
            <<"Request failed with status code ", StatusText(r.status)>>
      [] OTHER -> <<"API returned no text">>

\* A promise of transcribeLocally: not made, pending, resolved with a text,
\* rejected with a message.
NotCalled == [st |-> "none", text |-> <<>>]
Pending == [st |-> "pending", text |-> <<>>]
Resolved(t) == [st |-> "ok", text |-> t]
Rejected(m) == [st |-> "failed", text |-> m]

LogLine(line, backend, detail) ==
    [line |-> line, backend |-> backend, detail |-> detail]

----------------------------------------------------------------------------
(* WhisperService: loadModel, transcribeLocally, transcribeAudio.          *)

\* loadModel with the re-entrancy guard (`if (this.loading)`) left out.
loadModelUnguarded(c) ==
    IF transcriber # 0
    THEN /\ pc' = [pc EXCEPT ![c] = "canplay"]
         /\ model' = [model EXCEPT ![c] = transcriber]
         /\ url' = [url EXCEPT ![c] = "live"]
         /\ UNCHANGED <<loading, pipelines>>
    ELSE /\ pc' = [pc EXCEPT ![c] = "loading"]
         /\ loading' = TRUE
         /\ pipelines' = pipelines + 1
         /\ UNCHANGED <<model, url>>

\* loadModel up to its first suspension, for caller c: the cached instance
\* is returned (and transcribeLocally goes on to create the blob URL and to
\* wait for 'canplaythrough'); or a load is in progress and the caller
\* sleeps 1 s before calling loadModel again; or the caller sets `loading`
\* and starts pipeline('automatic-speech-recognition', 'Xenova/whisper-base.en').
loadModel(c) ==
    IF transcriber # 0
    THEN /\ pc' = [pc EXCEPT ![c] = "canplay"]
         /\ model' = [model EXCEPT ![c] = transcriber]
         /\ url' = [url EXCEPT ![c] = "live"]
         /\ UNCHANGED <<loading, pipelines>>
    ELSE IF loading
    THEN /\ pc' = [pc EXCEPT ![c] = "sleep"]
         /\ UNCHANGED <<model, url, loading, pipelines>>
    ELSE /\ pc' = [pc EXCEPT ![c] = "loading"]
         /\ loading' = TRUE
         /\ pipelines' = pipelines + 1
         /\ UNCHANGED <<model, url>>

\* transcribeLocally is entered: its first statement awaits loadModel().
transcribeLocally(c) ==
    /\ localCalls' = [localCalls EXCEPT ![c] = @ + 1]
    /\ localOutcome' = [localOutcome EXCEPT ![c] = Pending]
    /\ loadModel(c)

\* The Error transcribeLocally rejects with (line 454), wrapped by
\* transcribeAudio's inner catch (line 510) and rethrown by its outer catch
\* (line 520); d is the message of the error that was caught.
LocalErrorMessage(d) == <<"Local transcription failed: ">> \o d
ProcessingErrorMessage(d) == <<"Failed to process audio: ">> \o d

\* The three console.error lines a failure of transcribeLocally passes.
LocalFailureLog(d) ==
    << LogLine(453, "local", d),
       LogLine(509, "local", LocalErrorMessage(d)),
       LogLine(513, "local", ProcessingErrorMessage(LocalErrorMessage(d))) >>

\* transcribeLocally's catch answering with a canned transcript instead of
\* rethrowing.
LocalThrowsCanned(c, d) ==
    /\ localOutcome' = [localOutcome EXCEPT ![c] = Rejected(LocalErrorMessage(d))]
    /\ pc' = [pc EXCEPT ![c] = "returned"]
    /\ result' = [result EXCEPT ![c] = [text |-> <<"sample transcript">>, chunks |-> <<>>]]
    /\ log' = [log EXCEPT ![c] = @ \o LocalFailureLog(d)]
    /\ UNCHANGED err

\* transcribeLocally throws inside its outer try with message d.
LocalThrows(c, d) ==
    /\ localOutcome' = [localOutcome EXCEPT ![c] = Rejected(LocalErrorMessage(d))]
    /\ pc' = [pc EXCEPT ![c] = "threw"]
    /\ err' = [err EXCEPT ![c] = ProcessingErrorMessage(LocalErrorMessage(d))]
    /\ log' = [log EXCEPT ![c] = @ \o LocalFailureLog(d)]
    /\ UNCHANGED result

\* transcribeAudio(audioFile) up to its first suspension: the format and
\* size checks, then axios.post('/api/transcribe', formData, {timeout: 30000}).
Start(c, f) ==
    /\ pc[c] = "idle"
    /\ file' = [file EXCEPT ![c] = f]
    /\ IF ~(\E format \in supportedFormats : StartsWith(f.type, format))
       THEN /\ pc' = [pc EXCEPT ![c] = "threw"]
            /\ err' = [err EXCEPT ![c] = <<"Please upload a WAV or MP3 file.">>]
            /\ log' = [log EXCEPT ![c] =
                         @ \o <<LogLine(513, "none", <<"Please upload a WAV or MP3 file.">>)>>]
            /\ UNCHANGED net
       ELSE IF f.size > maxSize
       THEN /\ pc' = [pc EXCEPT ![c] = "threw"]
            /\ err' = [err EXCEPT ![c] = <<"File too large. Maximum size is 25MB.">>]
            /\ log' = [log EXCEPT ![c] =
                         @ \o <<LogLine(513, "none", <<"File too large. Maximum size is 25MB.">>)>>]
            /\ UNCHANGED net
       ELSE /\ pc' = [pc EXCEPT ![c] = "remote"]
            /\ net' = [net EXCEPT ![c] = Sent]
            /\ UNCHANGED <<err, log>>
    /\ UNCHANGED <<remoteOutcome, localCalls, localOutcome, result, model, url, transcriber,
                   loading, pipelines>>
    /\ UNCHANGED <<serverVars, conv, sideVars>>

\* The early `return` of line 493 left out: every answer falls through.
ApiReturnsNever(r) == FALSE

\* What transcribeAudio does with the settled axios.post promise r: return
\* the response's text when it is truthy (line 492), fall back otherwise.
ApiReturns(r) == AxiosResolves(r) /\ Truthy(r.text)

\* The axios.post promise of call c settles with the answer in net[c].
RemoteReturn(c) ==
    /\ pc[c] = "remote"
    /\ net[c].st \in {"resp", "neterr"}
    /\ remoteOutcome' = [remoteOutcome EXCEPT ![c] = net[c]]
    /\ net' = [net EXCEPT ![c] = Closed]
    /\ IF ApiReturns(net[c])
       THEN /\ pc' = [pc EXCEPT ![c] = "returned"]
            /\ result' = [result EXCEPT ![c] =
                            [text |-> net[c].text.str,
                             chunks |-> IF net[c].chunks.defined
                                        THEN net[c].chunks.list ELSE <<>>]]
            /\ UNCHANGED <<localCalls, localOutcome, log, model, url, loading,
                           pipelines>>
       ELSE /\ log' = [log EXCEPT ![c] =
                         @ \o <<LogLine(IF AxiosResolves(net[c]) THEN 499 ELSE 501,
                                        "remote", RemoteFailure(net[c]))>>]
            /\ transcribeLocally(c)
            /\ UNCHANGED result
    /\ UNCHANGED <<file, err, transcriber>>
    /\ UNCHANGED <<serverVars, conv, sideVars>>

\* The 30 s timeout of the axios request fires before an answer arrived:
\* axios aborts the request and rejects with ECONNABORTED, which the
\* apiError catch turns into the local fallback.
AxiosTimeout(c) ==
    /\ pc[c] = "remote"
    /\ remoteOutcome' = [remoteOutcome EXCEPT ![c] = Timeout]
    /\ net' = [net EXCEPT ![c] = Closed]
    /\ log' = [log EXCEPT ![c] = @ \o <<LogLine(501, "remote", RemoteFailure(Timeout))>>]
    /\ transcribeLocally(c)
    /\ UNCHANGED <<file, result, err, transcriber>>
    /\ UNCHANGED <<serverVars, conv, sideVars>>

\* The 1 s sleep of a caller that found `loading` set is over: it calls
\* loadModel again (line 218).
Wake(c) ==
    /\ pc[c] = "sleep"
    /\ loadModel(c)
    /\ UNCHANGED <<file, net, remoteOutcome, localCalls, localOutcome, result, err, log,
                   transcriber>>
    /\ UNCHANGED <<serverVars, conv, sideVars>>

\* pipeline() of loadModel resolves: the instance is cached, `loading` is
\* cleared, and transcribeLocally creates the blob URL and the <audio>.
LoadSucceeds(c) ==
    /\ pc[c] = "loading"
    /\ transcriber' = c
    /\ loading' = FALSE
    /\ model' = [model EXCEPT ![c] = c]
    /\ url' = [url EXCEPT ![c] = "live"]
    /\ pc' = [pc EXCEPT ![c] = "canplay"]
    /\ UNCHANGED <<file, net, remoteOutcome, localCalls, localOutcome, result, err, log,
                   pipelines>>
    /\ UNCHANGED <<serverVars, conv, sideVars>>

\* pipeline() of loadModel rejects.
LoadFails(c) ==
    /\ pc[c] = "loading"
    /\ transcriber' = 0
    /\ loading' = FALSE
    /\ LocalThrows(c, <<"Unable to load speech recognition model. Please try again.">>)
    /\ UNCHANGED <<file, net, remoteOutcome, localCalls, model, url,
                   pipelines>>
    /\ UNCHANGED <<serverVars, conv, sideVars>>

\* The <audio> element fires 'canplaythrough'; model(audioURL, ...) starts.
CanPlayThrough(c) ==
    /\ pc[c] = "canplay"
    /\ file[c].playable
    /\ pc' = [pc EXCEPT ![c] = "infer"]
    /\ UNCHANGED <<file, net, remoteOutcome, localCalls, localOutcome, result, err, log,
                   model, url, transcriber, loading, pipelines>>
    /\ UNCHANGED <<serverVars, conv, sideVars>>

\* model(audioURL, ...) resolves with r: the URL is revoked and the chunks
\* are copied.
InferSucceeds(c, r) ==
    /\ pc[c] = "infer"
    /\ url' = [url EXCEPT ![c] = "revoked"]
    /\ localOutcome' = [localOutcome EXCEPT ![c] = Resolved(r.text)]
    /\ result' = [result EXCEPT ![c] = [text |-> r.text, chunks |-> r.chunks]]
    /\ pc' = [pc EXCEPT ![c] = "returned"]
    /\ UNCHANGED <<file, net, remoteOutcome, localCalls, err, log, model,
                   transcriber, loading, pipelines>>
    /\ UNCHANGED <<serverVars, conv, sideVars>>

\* model(audioURL, ...) rejects: the alternative approach constructs a new
\* pipeline('automatic-speech-recognition', 'Xenova/whisper-tiny.en').
InferFails(c) ==
    /\ pc[c] = "infer"
    /\ log' = [log EXCEPT ![c] = @ \o <<LogLine(416, "local", <<"inference failed">>)>>]
    /\ pipelines' = pipelines + 1
    /\ pc' = [pc EXCEPT ![c] = "altPipeline"]
    /\ UNCHANGED <<file, net, remoteOutcome, localCalls, localOutcome, result, err, model,
                   url, transcriber, loading>>
    /\ UNCHANGED <<serverVars, conv, sideVars>>

\* The alternative pipeline() resolves; newPipeline(audioURL) starts.
AltPipelineSucceeds(c) ==
    /\ pc[c] = "altPipeline"
    /\ pc' = [pc EXCEPT ![c] = "altInfer"]
    /\ UNCHANGED <<file, net, remoteOutcome, localCalls, localOutcome, result, err, log,
                   model, url, transcriber, loading, pipelines>>
    /\ UNCHANGED <<serverVars, conv, sideVars>>

\* The alternative pipeline() rejects.
AltPipelineFails(c) ==
    /\ pc[c] = "altPipeline"
    /\ LocalThrows(c, <<"alternative pipeline failed">>)
    /\ UNCHANGED <<file, net, remoteOutcome, localCalls, model, url,
                   transcriber, loading, pipelines>>
    /\ UNCHANGED <<serverVars, conv, sideVars>>

\* newPipeline(audioURL) resolves with text t.
AltInferSucceeds(c, t) ==
    /\ pc[c] = "altInfer"
    /\ url' = [url EXCEPT ![c] = "revoked"]
    /\ localOutcome' = [localOutcome EXCEPT ![c] = Resolved(t)]
    /\ result' = [result EXCEPT ![c] = [text |-> t, chunks |-> <<>>]]
    /\ pc' = [pc EXCEPT ![c] = "returned"]
    /\ UNCHANGED <<file, net, remoteOutcome, localCalls, err, log, model,
                   transcriber, loading, pipelines>>
    /\ UNCHANGED <<serverVars, conv, sideVars>>

\* newPipeline(audioURL) rejects.
AltInferFails(c) ==
    /\ pc[c] = "altInfer"
    /\ LocalThrows(c, <<"alternative inference failed">>)
    /\ UNCHANGED <<file, net, remoteOutcome, localCalls, model, url,
                   transcriber, loading, pipelines>>
    /\ UNCHANGED <<serverVars, conv, sideVars>>

\* The endpoint behind '/api/transcribe' answers the request of call c.
EndpointResponds(c, r) ==
    /\ pc[c] = "remote"
    /\ net[c].st = "sent"
    /\ net' = [net EXCEPT ![c] = r]
    /\ UNCHANGED <<pc, file, remoteOutcome, localCalls, localOutcome, result, err, log,
                   model, url, transcriber, loading, pipelines>>
    /\ UNCHANGED <<serverVars, conv, sideVars>>

----------------------------------------------------------------------------
(* WhisperService.convertToFloat32Array: the life of its AudioContext.     *)

NoConv == [pc |-> "idle", ctx |-> "none"]

\* convertToFloat32Array(arrayBuffer) up to its first suspension;
\* constructed: whether `new AudioContext()` returned instead of throwing.
\* When it throws, the catch rethrows and the finally block finds
\* audioContext null.
ConvertStart(constructed) ==
    /\ conv.pc = "idle"
    /\ conv' = IF constructed
               THEN [pc |-> "decoding", ctx |-> "open"]
               ELSE [pc |-> "rejected", ctx |-> "none"]
    /\ UNCHANGED <<clientVars, serverVars, sideVars>>

\* decodeAudioData settles (decoded: it resolved); the samples are
\* normalized and resampled, or the catch rethrows; either way the finally
\* block calls audioContext.close() and awaits it.
DecodeSettles(decoded) ==
    /\ conv.pc = "decoding"
    /\ conv' = [pc |-> IF decoded THEN "closing-ok" ELSE "closing-err",
                ctx |-> "closing"]
    /\ UNCHANGED <<clientVars, serverVars, sideVars>>

\* audioContext.close() resolves and the call settles.
CloseSettles ==
    /\ conv.pc \in {"closing-ok", "closing-err"}
    /\ conv' = [pc |-> IF conv.pc = "closing-ok" THEN "resolved" ELSE "rejected",
                ctx |-> "closed"]
    /\ UNCHANGED <<clientVars, serverVars, sideVars>>

ConvStep ==
    \/ \E constructed \in BOOLEAN : ConvertStart(constructed)
    \/ \E decoded \in BOOLEAN : DecodeSettles(decoded)
    \/ CloseSettles

----------------------------------------------------------------------------
(* The express server: POST /api/transcribe and transcribeWithWhisper.     *)

\* Lines the inline Python script prints to stdout before its result.
ProgressLines ==
    << "Loading Whisper model...", "Model loaded successfully",
       "Starting transcription...", "Transcription completed" >>

TextLine(t) == [kind |-> "text", line |-> t, text |-> Undefined, segments |-> <<>>,
                error |-> FALSE]
\* json.dumps(result)
ResultLine(r) == [kind |-> "json", line |-> "", text |-> Str(r.text),
                  segments |-> r.segments, error |-> FALSE]
\* json.dumps({"error": str(e)})
ErrorLine == [kind |-> "json", line |-> "", text |-> Undefined, segments |-> <<>>,
              error |-> TRUE]

\* What model.transcribe may yield.
WhisperResults ==
    { [text |-> Hi, segments |-> <<Chunk(Str(Hi), 0, 1)>>],
      [text |-> Empty, segments |-> <<>>] }

\* Lines Whisper may write to stderr while it succeeds (its warnings);
\* bounded by MaxWarnings.
MaxWarnings == 1

NoChild == [st |-> "none", step |-> 0, code |-> 0]
NoRes == [status |-> 0, body |-> <<>>, ended |-> FALSE, late |-> 0]

\* JSON.parse of the accumulated stdout: it succeeds only when the whole
\* of it is one JSON document.
JSONParses(data) == Len(data) = 1 /\ data[1].kind = "json"

\* How the promise of transcribeWithWhisper settles on 'close' with `code`
\* (lines 262-301), given the accumulated stdout.
WhisperSettles(code, data) ==
    IF code # 0 THEN "rejected"
    ELSE IF ~JSONParses(data) THEN "rejected"
    ELSE IF data[1].error THEN "rejected"
    ELSE "resolved"

NoOutcome == [st |-> "none", msg |-> "", detail |-> <<>>]
WhisperResolved == [st |-> "ok", msg |-> "", detail |-> <<>>]
\* reject(new Error(msg + detail))
WhisperRejected(msg, detail) == [st |-> "failed", msg |-> msg, detail |-> detail]

\* The same 'close' handler with the exit code test left out.
WhisperOutcomeIgnoringCode(code, data, errs) ==
    IF ~JSONParses(data)
    THEN WhisperRejected("Failed to parse Whisper output: ", <<>>)
    ELSE IF data[1].error THEN WhisperRejected("Whisper error: ", <<>>)
    ELSE WhisperResolved

\* The value the promise of transcribeWithWhisper settles with on 'close'
\* (lines 262-301); errs is errorData at that moment.
WhisperOutcome(code, data, errs) ==
    IF code # 0 THEN WhisperRejected("Whisper process failed: ", errs)
    ELSE IF ~JSONParses(data)
    THEN WhisperRejected("Failed to parse Whisper output: ", <<>>)
    ELSE IF data[1].error THEN WhisperRejected("Whisper error: ", <<>>)
    ELSE WhisperResolved

\* The body the handler writes for a resolved transcription: it reads
\* word.text of entries that hold `word`, so each chunk's text is undefined.
TranscriptBody(data) ==
    [text |-> data[1].text,
     chunks |-> Chunks([i \in 1..Len(data[1].segments) |->
                          Chunk(Undefined, data[1].segments[i].start,
                                data[1].segments[i].end)])]

\* { message: '...' }
MessageBody == [text |-> Undefined, chunks |-> NoChunks]

\* What the client's axios receives once the response has ended.
Delivered(r) == Response(r.status, r.body[1].text, r.body[1].chunks)

\* res.write(body); res.end() on response r.
WriteAndEnd(r, body) ==
    IF r.ended THEN [r EXCEPT !.late = @ + 1]
    ELSE [r EXCEPT !.body = Append(@, body), !.ended = TRUE]

\* The same continuation with a catch block that leaves the upload alone.
HandlerFinishKeepsFile(c, settled, data, exists) ==
    LET r1 == IF settled = "resolved"
              THEN WriteAndEnd(res[c], TranscriptBody(data))
              ELSE WriteAndEnd(res[c], MessageBody)
    IN /\ res' = [res EXCEPT ![c] = r1]
       /\ upload' = [upload EXCEPT ![c] = exists]
       /\ srv' = [srv EXCEPT ![c] = "done"]
       /\ net' = [net EXCEPT ![c] = IF @.st = "sent" THEN Delivered(r1) ELSE @]

\* The handler's work once transcribeWithWhisper has settled (lines
\* 1036-1063): on success the body is written and the upload unlinked a
\* second time, which throws when transcribeWithWhisper removed it and
\* lands in the catch that writes the failure message.
HandlerFinish(c, settled, data, exists) ==
    LET r1 == IF settled = "resolved"
              THEN WriteAndEnd(res[c], TranscriptBody(data))
              ELSE WriteAndEnd(res[c], MessageBody)
        r2 == IF settled = "resolved" /\ ~exists
              THEN WriteAndEnd(r1, MessageBody)
              ELSE r1
    IN /\ res' = [res EXCEPT ![c] = r2]
       /\ upload' = [upload EXCEPT ![c] = FALSE]
       /\ srv' = [srv EXCEPT ![c] = "done"]
       /\ net' = [net EXCEPT ![c] = IF @.st = "sent" THEN Delivered(r2) ELSE @]

\* The request of call c reaches the handler after multer has stored the
\* upload; hasFile: multer found an 'audio' field; pythonEnv: the file
\* whisper-env/Scripts/python.exe exists.
Receive(c, hasFile, pythonEnv) ==
    /\ srv[c] = "idle"
    /\ net[c].st = "sent"
    /\ IF ~hasFile
       THEN /\ res' = [res EXCEPT ![c] =
                         [status |-> 400, body |-> <<MessageBody>>,
                          ended |-> TRUE, late |-> 0]]
            /\ net' = [net EXCEPT ![c] = Response(400, Undefined, NoChunks)]
            /\ srv' = [srv EXCEPT ![c] = "done"]
            /\ UNCHANGED <<child, upload, outcome>>
       ELSE IF ~pythonEnv
       THEN /\ LET r == WriteAndEnd([NoRes EXCEPT !.status = 200], MessageBody)
               IN /\ res' = [res EXCEPT ![c] = r]
                  /\ net' = [net EXCEPT ![c] = Delivered(r)]
            /\ srv' = [srv EXCEPT ![c] = "done"]
            /\ outcome' = [outcome EXCEPT ![c] =
                    WhisperRejected("Whisper environment not properly configured.",
                                    <<>>)]
            /\ UNCHANGED <<child, upload>>
       ELSE /\ res' = [res EXCEPT ![c] = [NoRes EXCEPT !.status = 200]]
            /\ upload' = [upload EXCEPT ![c] = TRUE]
            /\ child' = [child EXCEPT ![c] = [st |-> "running", step |-> 0, code |-> 0]]
            /\ srv' = [srv EXCEPT ![c] = "whisper"]
            /\ UNCHANGED <<net, outcome>>
    /\ UNCHANGED <<outputData, errorData>>
    /\ UNCHANGED <<pc, file, remoteOutcome, localCalls, localOutcome, result,
                   err, log, model, url, transcriber, loading, pipelines, conv, sideVars>>

\* whisperProcess.stdout.on('data'): the script prints its next line, a
\* progress line or, last, the result r.
StdoutData(c, r) ==
    /\ child[c].st = "running"
    /\ child[c].step <= Len(ProgressLines)
    /\ outputData' = [outputData EXCEPT ![c] =
                        Append(@, IF child[c].step < Len(ProgressLines)
                                  THEN TextLine(ProgressLines[child[c].step + 1])
                                  ELSE ResultLine(r))]
    /\ child' = [child EXCEPT ![c].step = @ + 1]
    /\ UNCHANGED <<srv, errorData, upload, res, outcome>>
    /\ UNCHANGED <<clientVars, conv, sideVars>>

\* whisperProcess.stderr.on('data'): a warning of the Whisper library.
StderrData(c) ==
    /\ child[c].st = "running"
    /\ Len(errorData[c]) < MaxWarnings
    /\ errorData' = [errorData EXCEPT ![c] = Append(@, TextLine("warning"))]
    /\ UNCHANGED <<srv, child, outputData, upload, res, outcome>>
    /\ UNCHANGED <<clientVars, conv, sideVars>>

\* The script's except branch: load_model or transcribe raised; the error
\* is printed to stderr and the process exits with code 1.
ChildRaises(c) ==
    /\ child[c].st = "running"
    /\ child[c].step \in {1, 3}
    /\ errorData' = [errorData EXCEPT ![c] = Append(@, ErrorLine)]
    /\ child' = [child EXCEPT ![c].st = "exited", ![c].code = 1]
    /\ UNCHANGED <<srv, outputData, upload, res, outcome>>
    /\ UNCHANGED <<clientVars, conv, sideVars>>

\* The script has printed its result and the process exits with code 0.
ChildExits(c) ==
    /\ child[c].st = "running"
    /\ child[c].step = Len(ProgressLines) + 1
    /\ child' = [child EXCEPT ![c].st = "exited", ![c].code = 0]
    /\ UNCHANGED <<srv, outputData, errorData, upload, res, outcome>>
    /\ UNCHANGED <<clientVars, conv, sideVars>>

\* The process blocks for good (a model download that never completes, a
\* transcription that never ends): it neither prints nor exits any more.
ChildHangs(c) ==
    /\ child[c].st = "running"
    /\ child' = [child EXCEPT ![c].st = "hung"]
    /\ UNCHANGED <<srv, outputData, errorData, upload, res, outcome>>
    /\ UNCHANGED <<clientVars, conv, sideVars>>

\* The process is ended by a signal, at any point of the script; 'close'
\* then reports a code that is not 0 (null).
ChildKilled(c) ==
    /\ child[c].st = "running"
    /\ child' = [child EXCEPT ![c].st = "exited", ![c].code = -1]
    /\ UNCHANGED <<srv, outputData, errorData, upload, res, outcome>>
    /\ UNCHANGED <<clientVars, conv, sideVars>>

\* whisperProcess.on('close'), followed by the handler's continuation.
WhisperClose(c) ==
    /\ srv[c] = "whisper"
    /\ child[c].st = "exited"
    /\ child' = [child EXCEPT ![c].st = "closed"]
    /\ LET settled == WhisperSettles(child[c].code, outputData[c])
       IN HandlerFinish(c, settled, outputData[c], settled # "resolved")
    /\ outcome' = [outcome EXCEPT ![c] =
                      WhisperOutcome(child[c].code, outputData[c], errorData[c])]
    /\ UNCHANGED <<outputData, errorData>>
    /\ UNCHANGED <<pc, file, remoteOutcome, localCalls, localOutcome, result,
                   err, log, model, url, transcriber, loading, pipelines, conv, sideVars>>

\* whisperProcess.on('error'): the process could not be spawned.
WhisperError(c) ==
    /\ srv[c] = "whisper"
    /\ child[c] = [st |-> "running", step |-> 0, code |-> 0]
    /\ child' = [child EXCEPT ![c].st = "closed"]
    /\ HandlerFinish(c, "rejected", outputData[c], TRUE)
    /\ outcome' = [outcome EXCEPT ![c] =
                      WhisperRejected("Failed to start Whisper process: ", <<>>)]
    /\ UNCHANGED <<outputData, errorData>>
    /\ UNCHANGED <<pc, file, remoteOutcome, localCalls, localOutcome, result,
                   err, log, model, url, transcriber, loading, pipelines, conv, sideVars>>

----------------------------------------------------------------------------
(* transcribeWithWhisper on the events of an arbitrary child process.      *)

\* The number of stdout chunks a child emits is bounded by MaxChunks.
MaxChunks == 2

\* Chunks a child may write to stdout and to stderr.
StdoutChunks ==
    {TextLine("Transcription completed"), ErrorLine}
        \cup { ResultLine(r) : r \in WhisperResults }

StderrChunks == {TextLine("warning"), ErrorLine}

Event(stream, chunk) == [stream |-> stream, chunk |-> chunk]

\* whisperProcess.stdout.on('data') (lines 250-254)
StdoutChunk(c, chunk) ==
    /\ child[c].st = "running"
    /\ child[c].step < MaxChunks
    /\ outputData' = [outputData EXCEPT ![c] = Append(@, chunk)]
    /\ arrived' = [arrived EXCEPT ![c] = Append(@, Event("stdout", chunk))]
    /\ child' = [child EXCEPT ![c].step = @ + 1]
    /\ UNCHANGED <<srv, errorData, upload, res, outcome>>
    /\ UNCHANGED <<clientVars, conv, notArrived>>

\* A stderr listener that adds to the stdout buffer.
StderrChunkMisrouted(c, chunk) ==
    /\ child[c].st = "running"
    /\ Len(errorData[c]) < MaxWarnings
    /\ Len(arrived[c]) < MaxChunks + MaxWarnings
    /\ outputData' = [outputData EXCEPT ![c] = Append(@, chunk)]
    /\ arrived' = [arrived EXCEPT ![c] = Append(@, Event("stderr", chunk))]
    /\ UNCHANGED <<srv, child, errorData, upload, res, outcome>>
    /\ UNCHANGED <<clientVars, conv, notArrived>>

\* whisperProcess.stderr.on('data') (lines 256-260)
StderrChunk(c, chunk) ==
    /\ child[c].st = "running"
    /\ Len(errorData[c]) < MaxWarnings
    /\ Len(arrived[c]) < MaxChunks + MaxWarnings
    /\ errorData' = [errorData EXCEPT ![c] = Append(@, chunk)]
    /\ arrived' = [arrived EXCEPT ![c] = Append(@, Event("stderr", chunk))]
    /\ UNCHANGED <<srv, child, outputData, upload, res, outcome>>
    /\ UNCHANGED <<clientVars, conv, notArrived>>

\* The child ends with exit code `code`; its pipes have been read to
\* their end when 'close' is emitted.
ProcessExits(c, code) ==
    /\ child[c].st = "running"
    /\ child' = [child EXCEPT ![c].st = "exited", ![c].code = code]
    /\ UNCHANGED <<srv, outputData, errorData, upload, res, outcome>>
    /\ UNCHANGED <<clientVars, conv, sideVars>>

\* The steps of the server on the request of call c when the child is any
\* program.
AnyChildStep(c) ==
    \/ \E hasFile, pythonEnv \in BOOLEAN : Receive(c, hasFile, pythonEnv)
    \/ \E chunk \in StdoutChunks : StdoutChunk(c, chunk)
    \/ \E chunk \in StderrChunks : StderrChunk(c, chunk)
    \/ \E code \in {0, 1} : ProcessExits(c, code)
    \/ WhisperClose(c)
    \/ WhisperError(c)

----------------------------------------------------------------------------
(* The pages/api transcribe handler (formidable and node-whisper).         *)

NumRequests == 2
Requests == 1..NumRequests

ExtWav == <<".", "w", "a", "v">>
ExtWavUpper == <<".", "W", "A", "V">>
ExtMp3 == <<".", "m", "p", "3">>
ExtOgg == <<".", "o", "g", "g">>

\* String.prototype.toLowerCase on the characters used here.
ToLowerChar(ch) ==
    CASE ch = "W" -> "w"
      [] ch = "A" -> "a"
      [] ch = "V" -> "v"
      [] OTHER -> ch

toLowerCase(s) == [i \in 1..Len(s) |-> ToLowerChar(s[i])]

apiSupportedFormats == {ExtWav, ExtMp3}

maxFileSize == 25 * 1024 * 1024

\* A request: its method, whether it has an 'audio' part, and the
\* extension of that part's original file name and its size in bytes.
ApiUpload(method, hasAudio, ext, size) ==
    [method |-> method, hasAudio |-> hasAudio, ext |-> ext, size |-> size]

ApiUploads ==
    { ApiUpload("POST", TRUE, ExtWav, maxFileSize),
      ApiUpload("POST", TRUE, ExtWavUpper, 1024),
      ApiUpload("POST", TRUE, ExtOgg, 1024),
      ApiUpload("POST", TRUE, ExtMp3, maxFileSize + 1),
      ApiUpload("POST", FALSE, Empty, 0),
      ApiUpload("GET", FALSE, Empty, 0) }

NoUpload == ApiUpload("", FALSE, Empty, 0)

\* pc: where the handler is suspended; tmp: whether audioFile.filepath
\* exists; downloads: model downloads this request started; calls:
\* transcriptions this request started; status: the status it answered.
\* downloads: the model downloads the request started; failed: one of
\* them was rejected.
NoApi == [pc |-> "idle", req |-> NoUpload, tmp |-> FALSE, downloads |-> 0,
          failed |-> FALSE, calls |-> 0, status |-> 0]

\* res.status(n).json(...), which ends the handler.
ApiAnswer(a, n) == [a EXCEPT !.pc = "done", !.status = n]

\* handler(req, res) up to its first suspension: the method test, then
\* initializeModel, which returns at once when the model was downloaded
\* and otherwise starts the download before the form is looked at.
ApiRequest(r, q) ==
    /\ api[r].pc = "idle"
    /\ LET a == [api[r] EXCEPT !.req = q]
       IN api' = [api EXCEPT ![r] =
                    IF q.method # "POST" THEN ApiAnswer(a, 405)
                    ELSE IF modelDownloaded THEN [a EXCEPT !.pc = "parsing"]
                    ELSE [a EXCEPT !.pc = "downloading", !.downloads = @ + 1]]
    /\ UNCHANGED <<modelDownloaded, notApi>>
    /\ UNCHANGED <<clientVars, serverVars, conv>>

\* whisper('dummy.wav', {download_model: true}) settles; on failure
\* initializeModel throws and the outer catch answers 500.
DownloadSettles(r, ok) ==
    /\ api[r].pc = "downloading"
    /\ IF ok
       THEN /\ modelDownloaded' = TRUE
            /\ api' = [api EXCEPT ![r].pc = "parsing"]
       ELSE /\ api' = [api EXCEPT ![r] = ApiAnswer([@ EXCEPT !.failed = TRUE], 500)]
            /\ UNCHANGED modelDownloaded
    /\ UNCHANGED notApi
    /\ UNCHANGED <<clientVars, serverVars, conv>>

\* form.parse(req) settles.  It rejects when the part exceeds maxFileSize
\* (the handler is then given no file); otherwise the part is a file in
\* the uploads directory, and the handler tests its extension and starts
\* the transcription.
ParseSettles(r) ==
    /\ api[r].pc = "parsing"
    /\ LET q == api[r].req
       IN api' = [api EXCEPT ![r] =
                    IF q.size > maxFileSize THEN ApiAnswer(@, 500)
                    ELSE IF ~q.hasAudio THEN ApiAnswer(@, 400)
                    ELSE IF toLowerCase(q.ext) \notin apiSupportedFormats
                    THEN ApiAnswer([@ EXCEPT !.tmp = FALSE], 400)
                    ELSE [@ EXCEPT !.pc = "transcribing", !.tmp = TRUE,
                                   !.calls = @ + 1]]
    /\ UNCHANGED <<modelDownloaded, notApi>>
    /\ UNCHANGED <<clientVars, serverVars, conv>>

\* whisper(audioFile.filepath, ...) settles; on failure the catch unlinks
\* the file and throws, and the outer catch answers 500.
TranscribeSettles(r, ok) ==
    /\ api[r].pc = "transcribing"
    /\ api' = [api EXCEPT ![r] =
                 IF ok THEN [@ EXCEPT !.pc = "reading"]
                 ELSE ApiAnswer([@ EXCEPT !.tmp = FALSE], 500)]
    /\ UNCHANGED <<modelDownloaded, notApi>>
    /\ UNCHANGED <<clientVars, serverVars, conv>>

\* result.json.getContent() settles: the file is unlinked and the
\* transcription answered, or the catch unlinks it and 500 is answered.
ContentSettles(r, ok) ==
    /\ api[r].pc = "reading"
    /\ api' = [api EXCEPT ![r] =
                 ApiAnswer([@ EXCEPT !.tmp = FALSE], IF ok THEN 200 ELSE 500)]
    /\ UNCHANGED <<modelDownloaded, notApi>>
    /\ UNCHANGED <<clientVars, serverVars, conv>>

ApiStep(r) ==
    \/ \E q \in ApiUploads : ApiRequest(r, q)
    \/ \E ok \in BOOLEAN : DownloadSettles(r, ok)
    \/ ParseSettles(r)
    \/ \E ok \in BOOLEAN : TranscribeSettles(r, ok)
    \/ \E ok \in BOOLEAN : ContentSettles(r, ok)

----------------------------------------------------------------------------
(* convertAudioToWav: FFmpeg and the temp files of concurrent calls.       *)

NumConversions == 2
Conversions == 1..NumConversions

\* The instants Date.now() can return while the calls are made.
MaxClock == 1
Times == 0..MaxClock

ExtOfWav == <<"w", "a", "v">>
ExtOfWebm == <<"w", "e", "b", "m">>

\* mimeType.split('/')[1] || 'webm'
ExtOf(mimeType) == IF Tail(mimeType) = <<>> THEN ExtOfWebm ELSE Tail(mimeType)

\* path.join(tempDir, `input-${timestamp}.${ext}`)
InputPath(timestamp, ext) == [name |-> "input", timestamp |-> timestamp, ext |-> ext]
\* path.join(tempDir, `output-${timestamp}.wav`)
OutputPath(timestamp) == [name |-> "output", timestamp |-> timestamp, ext |-> ExtOfWav]

Paths ==
    { InputPath(t, e) : t \in Times, e \in {ExtOfWav, ExtOfWebm, Tail(AudioMp3)} }
        \cup { OutputPath(t) : t \in Times }

\* pc: "idle", "converting", "resolved" or "rejected"; paths: whether the
\* call got as far as naming its temp files; timestamp, ext: what it named
\* them with; msg: the message of the rejection.  A file of `disk` is
\* "none" (it does not exist), "empty" (size 0) or "full".
NoWav == [pc |-> "idle", paths |-> FALSE, timestamp |-> 0, ext |-> Empty, msg |-> ""]

inputPath(w) == InputPath(w.timestamp, w.ext)
outputPath(w) == OutputPath(w.timestamp)

WavRejected(w, msg) == [w EXCEPT !.pc = "rejected", !.msg = msg]

\* The arguments of a call and how its synchronous part fares: buffer: the
\* first argument is a Buffer; mimeType; wrote: writeFileSync returned;
\* built: building the FFmpeg command and save() returned.
WavCalls ==
    { [buffer |-> FALSE, mimeType |-> AudioWav, wrote |-> TRUE, built |-> TRUE],
      [buffer |-> TRUE, mimeType |-> Empty, wrote |-> TRUE, built |-> TRUE],
      [buffer |-> TRUE, mimeType |-> AudioMp3, wrote |-> FALSE, built |-> TRUE],
      [buffer |-> TRUE, mimeType |-> AudioMp3, wrote |-> TRUE, built |-> FALSE],
      [buffer |-> TRUE, mimeType |-> AudioWav, wrote |-> TRUE, built |-> TRUE] }

\* The clock of the server moves on by a millisecond.
Tick ==
    /\ now < MaxClock
    /\ now' = now + 1
    /\ UNCHANGED <<notWav, wavc, disk>>
    /\ UNCHANGED <<clientVars, serverVars, conv>>

\* The executor of the promise (lines 98-197): the argument tests, the
\* two paths named after Date.now(), then the try block; its catch
\* removes whichever of the two paths exists.
convertAudioToWav(k, a) ==
    /\ wavc[k].pc = "idle"
    /\ IF ~a.buffer
       THEN /\ wavc' = [wavc EXCEPT ![k] =
                          WavRejected(@, "Invalid input: buffer is required")]
            /\ UNCHANGED disk
       ELSE IF a.mimeType = Empty
       THEN /\ wavc' = [wavc EXCEPT ![k] =
                          WavRejected(@, "Invalid input: mimeType is required")]
            /\ UNCHANGED disk
       ELSE LET w == [wavc[k] EXCEPT !.paths = TRUE, !.timestamp = now,
                                     !.ext = ExtOf(a.mimeType)]
            IN IF ~a.wrote \/ ~a.built
               THEN /\ wavc' = [wavc EXCEPT ![k] =
                                  WavRejected(w, "Failed to setup audio conversion: ")]
                    /\ disk' = [disk EXCEPT ![inputPath(w)] = "none",
                                            ![outputPath(w)] = "none"]
               ELSE /\ wavc' = [wavc EXCEPT ![k] = [w EXCEPT !.pc = "converting"]]
                    /\ disk' = [disk EXCEPT ![inputPath(w)] = "full"]
    /\ UNCHANGED <<notWav, now>>
    /\ UNCHANGED <<clientVars, serverVars, conv>>

\* FFmpeg creates the output file, and later fills it.
FfmpegWrites(k) ==
    /\ wavc[k].pc = "converting"
    /\ disk[outputPath(wavc[k])] # "full"
    /\ disk' = [disk EXCEPT ![outputPath(wavc[k])] =
                  IF @ = "none" THEN "empty" ELSE "full"]
    /\ UNCHANGED <<notWav, wavc, now>>
    /\ UNCHANGED <<clientVars, serverVars, conv>>

\* command.on('error') (lines 144-161): both paths are removed.
FfmpegError(k) ==
    /\ wavc[k].pc = "converting"
    /\ wavc' = [wavc EXCEPT ![k] = WavRejected(@, "Error converting audio: ")]
    /\ disk' = [disk EXCEPT ![inputPath(wavc[k])] = "none",
                            ![outputPath(wavc[k])] = "none"]
    /\ UNCHANGED <<notWav, now>>
    /\ UNCHANGED <<clientVars, serverVars, conv>>

\* command.on('end') (lines 163-185): the two tests of the output file
\* reject and return; only after them is the input path removed.
FfmpegEnd(k) ==
    /\ wavc[k].pc = "converting"
    /\ LET out == disk[outputPath(wavc[k])]
       IN IF out = "none"
          THEN /\ wavc' = [wavc EXCEPT ![k] =
                    WavRejected(@, "FFmpeg conversion failed: output file not created")]
               /\ UNCHANGED disk
          ELSE IF out = "empty"
          THEN /\ wavc' = [wavc EXCEPT ![k] =
                    WavRejected(@, "FFmpeg conversion failed: output file is empty")]
               /\ UNCHANGED disk
          ELSE /\ wavc' = [wavc EXCEPT ![k].pc = "resolved"]
               /\ disk' = [disk EXCEPT ![inputPath(wavc[k])] = "none"]
    /\ UNCHANGED <<notWav, now>>
    /\ UNCHANGED <<clientVars, serverVars, conv>>

WavStep(k) ==
    \/ \E a \in WavCalls : convertAudioToWav(k, a)
    \/ FfmpegWrites(k)
    \/ FfmpegError(k)
    \/ FfmpegEnd(k)

----------------------------------------------------------------------------
(* convertToFloat32Array: peak normalization and resampling.               *)

TargetRate == 16000

\* Sample rates of the decoded AudioBuffer.  The ratio 16000 / rate and the
\* quotients the code forms with it are exact for these rates and the
\* lengths used here, so floor of the double equals floor of the rational.
SampleRates == {8000, 16000, 32000, 48000}

MaxLen == 3
MaxSample == 2

\* Samples of channel 0, in units of some quantum of amplitude.
Samples == (0 - MaxSample)..MaxSample
Buffers == UNION { [1..n -> Samples] : n \in 0..MaxLen }

Abs(x) == IF x < 0 THEN 0 - x ELSE x

\* The loop of lines 262-268.
MaxAbs(rawData) ==
    LET S == { Abs(rawData[i]) : i \in 1..Len(rawData) } \cup {0}
    IN CHOOSE m \in S : \A x \in S : x <= m

\* maxAbsValue || 1
maxAbsValue(rawData) == IF MaxAbs(rawData) = 0 THEN 1 ELSE MaxAbs(rawData)

\* A quotient num / den, kept as the pair (den > 0).
Quot(num, den) == [num |-> num, den |-> den]

\* normalizedData[i] = rawData[i] / maxAbsValue
normalizedData(rawData) ==
    [i \in 1..Len(rawData) |-> Quot(rawData[i], maxAbsValue(rawData))]

\* Math.floor(normalizedData.length * resampleRatio)
resampledLength(len, rate) == (len * TargetRate) \div rate

\* An index map that divides by twice the ratio.
originalIndexHalved(i, rate) == (i * rate) \div (2 * TargetRate)

\* Math.floor(i / resampleRatio), i counted from 0
originalIndex(i, rate) == (i * rate) \div TargetRate

\* The loop of lines 285-288 (sequences are indexed from 1).
resampledData(normalized, rate) ==
    [j \in 1..resampledLength(Len(normalized), rate) |->
        normalized[originalIndex(j - 1, rate) + 1]]

\* What convertToFloat32Array returns for a decoded buffer.
Float32Samples(rawData, rate) ==
    IF rate # TargetRate
    THEN resampledData(normalizedData(rawData), rate)
    ELSE normalizedData(rawData)

NoPcm == [st |-> "none", rate |-> TargetRate, raw |-> <<>>, out |-> <<>>]

\* convertToFloat32Array on a buffer that decodes to rawData at `rate`.
convertToFloat32Array(rawData, rate) ==
    /\ pcm.st = "none"
    /\ pcm' = [st |-> "returned", rate |-> rate, raw |-> rawData,
               out |-> Float32Samples(rawData, rate)]
    /\ UNCHANGED notPcm
    /\ UNCHANGED <<clientVars, serverVars, conv>>

----------------------------------------------------------------------------
(* The chunk lists built by transcribeWithSarvam and transcribeLocally.    *)

\* A number a backend may or may not supply; times are in tenths of a
\* second, so that 0.3 s is 3.
NoNum == [defined |-> FALSE, val |-> 0]
Num(n) == [defined |-> TRUE, val |-> n]

\* a || b on such numbers: undefined, null and 0 are falsy.
OrNum(a, b) == IF a.defined /\ a.val # 0 THEN a ELSE b

SpaceHi == <<" ", "h", "i">>

\* text.split(' ').length: one more than the number of spaces.
SplitLength(text) == 1 + Cardinality({ i \in 1..Len(text) : text[i] = " " })

RECURSIVE TrimStart(_)
TrimStart(text) ==
    IF text # <<>> /\ Head(text) = " " THEN TrimStart(Tail(text)) ELSE text

RECURSIVE TrimEnd(_)
TrimEnd(text) ==
    IF text # <<>> /\ text[Len(text)] = " "
    THEN TrimEnd(SubSeq(text, 1, Len(text) - 1))
    ELSE text

\* String.prototype.trim (of spaces)
Trim(text) == TrimEnd(TrimStart(text))

NoTimestamp == [defined |-> FALSE, from |-> NoNum, to |-> NoNum]
Timestamp(a, b) == [defined |-> TRUE, from |-> a, to |-> b]

\* A segment of the remote reply.
RawSegments ==
    [ text : {Str(Hi), Str(SpaceHi)},
      start : {NoNum, Num(0), Num(10)},
      end : {NoNum, Num(0), Num(20)},
      timestamp : {NoTimestamp, Timestamp(Num(10), Num(20))} ]

MaxSegments == 2

SegmentLists == UNION { [1..n -> RawSegments] : n \in 0..MaxSegments }

\* The callback of segments.map (lines 343-348).
ProcessedSegment(segment) ==
    LET text == IF Truthy(segment.text) THEN segment.text.str ELSE Empty
        start == OrNum(OrNum(segment.start, segment.timestamp.from), Num(0))
        end == OrNum(OrNum(segment.end, segment.timestamp.to),
                     Num(start.val + SplitLength(text) * 3))
    IN [text |-> Trim(text), start |-> start, end |-> end]

\* What the remote service may answer: key: SARVAM_API_KEY is set; ok:
\* response.ok; text, transcript, transcription: those fields of the body.
SarvamReply(key, ok, text, transcript, transcription) ==
    [key |-> key, ok |-> ok, text |-> text, transcript |-> transcript,
     transcription |-> transcription]

SarvamReplies ==
    { SarvamReply(FALSE, TRUE, Str(Hi), Undefined, Undefined),
      SarvamReply(TRUE, FALSE, Undefined, Undefined, Undefined),
      SarvamReply(TRUE, TRUE, Undefined, Undefined, Undefined),
      SarvamReply(TRUE, TRUE, Str(SpaceHi), Undefined, Undefined),
      SarvamReply(TRUE, TRUE, Undefined, Str(Hi), Undefined),
      SarvamReply(TRUE, TRUE, Str(Empty), Str(Hi), Undefined),
      SarvamReply(TRUE, TRUE, Undefined, Undefined, Str(SpaceHi)) }

\* The `segments` and `chunks` fields of the remote reply: each is a list
\* or is missing.
SegmentFields ==
    { [segments |-> Chunks(l), chunks |-> NoChunks] : l \in SegmentLists }
        \cup { [segments |-> NoChunks, chunks |-> Chunks(l)] :
                    l \in { q \in SegmentLists : Len(q) <= 1 } }
        \cup { [segments |-> Chunks(<<>>), chunks |-> Chunks(l)] :
                    l \in { q \in SegmentLists : Len(q) = 1 } }
        \cup { [segments |-> NoChunks, chunks |-> NoChunks] }

\* data.text || data.transcript || data.transcription
transcriptionText(d) ==
    IF Truthy(d.text) THEN d.text
    ELSE IF Truthy(d.transcript) THEN d.transcript
    ELSE d.transcription

\* data.chunks || data.segments || []
segmentsChunksFirst(f) ==
    IF f.chunks.defined THEN f.chunks.list
    ELSE IF f.segments.defined THEN f.segments.list
    ELSE <<>>

\* data.segments || data.chunks || []: an array, even an empty one, is
\* truthy.
segments(f) ==
    IF f.segments.defined THEN f.segments.list
    ELSE IF f.chunks.defined THEN f.chunks.list
    ELSE <<>>

NoFields == [segments |-> NoChunks, chunks |-> NoChunks]

\* The answers transcribeWithSarvam is run on: every reply with the
\* lists of at most one segment, and one reply with every list.
SarvamAnswers ==
    { [reply |-> d, fields |-> f] :
          d \in SarvamReplies,
          f \in { g \in SegmentFields :
                      Len(g.segments.list) <= 1 /\ Len(g.chunks.list) <= 1 } }
        \cup { [reply |-> SarvamReply(TRUE, TRUE, Str(SpaceHi), Undefined, Undefined),
                fields |-> f] : f \in SegmentFields }

NoReply == [key |-> FALSE, ok |-> FALSE, text |-> Undefined,
            transcript |-> Undefined, transcription |-> Undefined]

\* reply and fields are the answer the call worked on, raw the segment
\* list it took from it.
NoAsm == [kind |-> "none", st |-> "none", reply |-> NoReply,
          fields |-> NoFields, raw |-> <<>>, text |-> Empty, chunks |-> <<>>]

\* transcribeWithSarvam (lines 305-361) on reply d with the lists f.
transcribeWithSarvam(d, f) ==
    /\ asm.st = "none"
    /\ asm' = IF ~d.key \/ ~d.ok \/ ~Truthy(transcriptionText(d))
              THEN [NoAsm EXCEPT !.kind = "sarvam", !.st = "threw", !.reply = d]
              ELSE [kind |-> "sarvam", st |-> "returned", reply |-> d,
                    fields |-> f, raw |-> segments(f),
                    text |-> Trim(transcriptionText(d).str),
                    chunks |-> [i \in 1..Len(segments(f)) |->
                                  ProcessedSegment(segments(f)[i])]]
    /\ UNCHANGED notAsm
    /\ UNCHANGED <<clientVars, serverVars, conv>>

\* A chunk of the in-browser pipeline's result; the end of the timestamp
\* may be null.
PipelineChunks ==
    [ text : {Str(Hi)},
      timestamp : { Timestamp(a, b) : a \in {Num(0), Num(10), Num(20)},
                                      b \in {NoNum, Num(0), Num(10), Num(20)} } ]

PipelineChunkLists == UNION { [1..n -> PipelineChunks] : n \in 0..MaxSegments }

\* The forEach of transcribeLocally (lines 399-409): each chunk is pushed
\* with timestamp[0] and timestamp[1] as they are.
LocalChunks(cs) ==
    /\ asm.st = "none"
    /\ asm' = [kind |-> "local", st |-> "returned", reply |-> NoReply,
               fields |-> NoFields, raw |-> cs, text |-> Hi,
               chunks |-> [i \in 1..Len(cs) |->
                             [text |-> cs[i].text.str,
                              start |-> cs[i].timestamp.from,
                              end |-> cs[i].timestamp.to]]]
    /\ UNCHANGED notAsm
    /\ UNCHANGED <<clientVars, serverVars, conv>>

\* The remote branch of transcribeAudio (lines 492-497) on the body of a
\* 2xx response: the text as it is, and chunks || [].
RemoteChunks(r) ==
    /\ asm.st = "none"
    /\ AxiosResolves(r)
    /\ asm' = IF ApiReturns(r)
              THEN [kind |-> "remote", st |-> "returned",
                    reply |-> [NoReply EXCEPT !.key = TRUE, !.ok = TRUE,
                                              !.text = r.text],
                    fields |-> [NoFields EXCEPT !.chunks = r.chunks],
                    raw |-> IF r.chunks.defined THEN r.chunks.list ELSE <<>>,
                    text |-> r.text.str,
                    chunks |-> IF r.chunks.defined
                               THEN [i \in 1..Len(r.chunks.list) |->
                                       [text |-> r.chunks.list[i].text.str,
                                        start |-> Num(r.chunks.list[i].start),
                                        end |-> Num(r.chunks.list[i].end)]]
                               ELSE <<>>]
              ELSE [NoAsm EXCEPT !.kind = "remote", !.st = "threw",
                                 !.reply = [NoReply EXCEPT !.key = TRUE,
                                                           !.ok = TRUE,
                                                           !.text = r.text]]
    /\ UNCHANGED notAsm
    /\ UNCHANGED <<clientVars, serverVars, conv>>

----------------------------------------------------------------------------
(* InterviewPractice: the session of the interview page.                   *)

\* The most questions the question generator's answer holds.
MaxQuestions == 3

\* useState(3) of numQuestions
DefaultQuestions == 3

\* The least length of a trimmed answer that handleNextQuestion takes.
MinAnswerLength == 10

Letters(n) == [i \in 1..n |-> "a"]
Spaces(n) == [i \in 1..n |-> " "]

\* What the answer box may hold: nothing, too few letters, spaces only,
\* too few letters between spaces, just enough letters, and more letters
\* between spaces.
AnswerTexts ==
    { Empty,
      Letters(MinAnswerLength - 1),
      Spaces(MinAnswerLength + 2),
      Spaces(1) \o Letters(MinAnswerLength - 1) \o Spaces(1),
      Letters(MinAnswerLength),
      Spaces(1) \o Letters(MinAnswerLength + 1) \o Spaces(1) }

\* opening_questions of the generator's answer, the questions named by
\* their place.
OpeningQuestions(n) == [i \in 1..n |-> i]

\* questions.slice(1)
Rest(q) == IF q = <<>> THEN <<>> ELSE Tail(q)

\* What POST /api/generate-questions may answer: a list of questions (an
\* empty one is refused at lines 307-311), or a failure.
GeneratorReplies ==
    { [ok |-> TRUE, questions |-> OpeningQuestions(n)] : n \in 0..MaxQuestions }
        \cup { [ok |-> FALSE, questions |-> <<>>] }

\* useState<InterviewSession | null>(null); a currentQuestion of 0 is null.
NoSession ==
    [active |-> FALSE, currentQuestion |-> 0, remainingQuestions |-> <<>>,
     answers |-> <<>>, totalQuestions |-> 0, recordedQuestions |-> <<>>]

\* The state hooks of the component (lines 157-175).
NoUi ==
    [session |-> NoSession, currentAnswer |-> Empty, isComplete |-> FALSE,
     isRecording |-> FALSE, interviewMode |-> "give", showSettings |-> TRUE,
     showInterview |-> FALSE, showAnalysis |-> FALSE, isLoading |-> FALSE,
     error |-> "none"]

\* The mode buttons of the settings form (lines 1318, 1340).
setInterviewMode(mode) ==
    /\ ui.showSettings /\ ~ui.isLoading
    /\ ui.interviewMode # mode
    /\ ui' = [ui EXCEPT !.interviewMode = mode]
    /\ UNCHANGED notUi
    /\ UNCHANGED <<clientVars, serverVars, conv>>

\* startInterview up to its await (lines 282-303); the submit button is
\* disabled while isLoading.
startInterview ==
    /\ ui.showSettings /\ ~ui.isLoading
    /\ ui' = [ui EXCEPT !.error = "none", !.isLoading = TRUE,
                        !.showAnalysis = FALSE, !.currentAnswer = Empty]
    /\ UNCHANGED notUi
    /\ UNCHANGED <<clientVars, serverVars, conv>>

\* startInterview from the answer of the generator on (lines 305-363).
QuestionsArrive(reply) ==
    /\ ui.showSettings /\ ui.isLoading
    /\ IF reply.ok /\ reply.questions # <<>>
       THEN ui' = [ui EXCEPT
                     !.session =
                         [active |-> TRUE,
                          currentQuestion |-> reply.questions[1],
                          remainingQuestions |-> Rest(reply.questions),
                          answers |-> <<>>,
                          totalQuestions |->
                              IF ui.interviewMode = "give"
                              THEN Len(reply.questions) ELSE DefaultQuestions,
                          recordedQuestions |-> <<>>],
                     !.showSettings = FALSE,
                     !.showInterview = TRUE,
                     !.isLoading = FALSE]
       ELSE ui' = [ui EXCEPT !.error = "generate", !.isLoading = FALSE]
    /\ UNCHANGED notUi
    /\ UNCHANGED <<clientVars, serverVars, conv>>

\* The answer box is shown (line 1441).
AnswerBoxShown == ui.showInterview /\ ~ui.showAnalysis

\* onChange of the textarea (line 1547) and recognition.onresult (line
\* 222): the answer box holds text a.
setCurrentAnswer(a) ==
    /\ AnswerBoxShown
    /\ ui.currentAnswer # a
    /\ ui' = [ui EXCEPT !.currentAnswer = a]
    /\ UNCHANGED notUi
    /\ UNCHANGED <<clientVars, serverVars, conv>>

\* startRecording (line 254) and stopRecording (line 272), as far as the
\* state hooks go.
setIsRecording(b) ==
    /\ AnswerBoxShown
    /\ ui.isRecording # b
    /\ ui' = [ui EXCEPT !.isRecording = b, !.error = IF b THEN "none" ELSE @]
    /\ UNCHANGED notUi
    /\ UNCHANGED <<clientVars, serverVars, conv>>

\* The session and flags handleNextQuestion leaves once the answer in the
\* box has passed its check (lines 377-462).
NextQuestion ==
    LET s == ui.session
        answer == Trim(ui.currentAnswer)
    IN IF ui.interviewMode = "give"
       THEN IF s.currentQuestion = 0
            THEN [ui EXCEPT !.error = "none"]
            ELSE IF s.remainingQuestions # <<>>
            THEN [ui EXCEPT
                    !.session.currentQuestion = s.remainingQuestions[1],
                    !.session.remainingQuestions = Tail(s.remainingQuestions),
                    !.session.answers =
                        Append(@, [question |-> s.currentQuestion,
                                   answer |-> answer]),
                    !.currentAnswer = Empty,
                    !.error = "none"]
            ELSE [ui EXCEPT
                    !.session.currentQuestion = 0,
                    !.session.answers =
                        Append(@, [question |-> s.currentQuestion,
                                   answer |-> answer]),
                    !.isComplete = TRUE,
                    !.showAnalysis = TRUE,
                    !.error = "none"]
       ELSE LET updatedQuestions == Append(s.recordedQuestions, answer)
                nextQuestionNumber == Len(updatedQuestions)
            IN IF nextQuestionNumber >= s.totalQuestions
               THEN [ui EXCEPT
                       !.session.recordedQuestions = updatedQuestions,
                       !.currentAnswer = Empty,
                       !.isComplete = TRUE,
                       !.showAnalysis = TRUE,
                       !.error = "none"]
               ELSE [ui EXCEPT
                       !.session.currentQuestion =
                           IF nextQuestionNumber - 1 \in
                                  1..Len(s.remainingQuestions)
                           THEN s.remainingQuestions[nextQuestionNumber - 1]
                           ELSE 0,
                       !.session.recordedQuestions = updatedQuestions,
                       !.currentAnswer = Empty,
                       !.error = "none"]

\* The next button is rendered (lines 467, 1556).
NextButtonShown ==
    AnswerBoxShown /\ ui.currentAnswer # Empty /\ ~ui.isRecording

\* handleNextQuestion without the check of the answer's length.
handleNextQuestionUnchecked ==
    /\ NextButtonShown
    /\ ui.session.active
    /\ ui' = NextQuestion
    /\ UNCHANGED notUi
    /\ UNCHANGED <<clientVars, serverVars, conv>>

\* handleNextQuestion (lines 366-463), called by a click on the next
\* button; the button is not rendered while isRecording, so the call
\* runs to its end without a suspension.
handleNextQuestion ==
    /\ NextButtonShown
    /\ ui.session.active
    /\ ui' = IF Len(Trim(ui.currentAnswer)) < MinAnswerLength
             THEN [ui EXCEPT !.error = "detail"]
             ELSE NextQuestion
    /\ UNCHANGED notUi
    /\ UNCHANGED <<clientVars, serverVars, conv>>

InterviewNext ==
    \/ \E mode \in {"give", "take"} : setInterviewMode(mode)
    \/ startInterview
    \/ \E reply \in GeneratorReplies : QuestionsArrive(reply)
    \/ \E a \in AnswerTexts : setCurrentAnswer(a)
    \/ \E b \in BOOLEAN : setIsRecording(b)
    \/ handleNextQuestion

----------------------------------------------------------------------------
(* question-generator: generateInterviewQuestions.                         *)

\* The most questions an answer of the generative API holds.
MaxGenerated == 3

\* The default of numQuestions and the most that may be asked for.
DefaultNumQuestions == 3
MaxNumQuestions == 10

\* The numQuestions argument: left out, NaN, or an integer.
NoCount == [kind |-> "undefined", val |-> 0]
NaNCount == [kind |-> "nan", val |-> 0]
Count(v) == [kind |-> "int", val |-> v]

NumQuestionsInputs ==
    {NoCount, NaNCount} \cup { Count(v) : v \in (0 - 1)..(MaxNumQuestions + 1) }

\* The default of the parameter and the validation (lines 68-77).
validNumQuestions(n) ==
    IF n.kind # "int" THEN DefaultNumQuestions
    ELSE IF n.val = 0 \/ n.val < 1 \/ n.val > MaxNumQuestions
    THEN DefaultNumQuestions
    ELSE n.val

\* A question: each field is missing ("none"), the generative API's own,
\* one of defaultQuestions, or filled in by the final map.
Item(kind, idx, question, purpose, follow_ups) ==
    [kind |-> kind, idx |-> idx, question |-> question, purpose |-> purpose,
     follow_ups |-> follow_ups]

\* The elements an opening_questions array of the API may hold: a full
\* question, an object with no field, one with a question only, and null.
GeneratedItems ==
    { Item("object", 0, "own", "own", "own"),
      Item("object", 0, "none", "none", "none"),
      Item("object", 0, "own", "none", "none"),
      Item("null", 0, "none", "none", "none") }

GeneratedLists == UNION { [1..n -> GeneratedItems] : n \in 0..MaxGenerated }

\* What the generative API does: no key is configured; generateContent
\* throws; its result has no response; response.text() throws; the text
\* is no JSON; the JSON has no opening_questions array; or it has one.
ApiOutcome(kind, items) == [kind |-> kind, items |-> items]

ApiOutcomes ==
    { ApiOutcome(k, <<>>) :
          k \in {"no key", "generation error", "no response", "text throws",
                 "unparsable", "no array"} }
        \cup { ApiOutcome("array", l) : l \in GeneratedLists }

\* createDefaultQuestions (lines 13-48)
createDefaultQuestions(numQuestions) ==
    [i \in 1..numQuestions |-> Item("default", (i - 1) % 5, "default", "default", "default")]

\* The questions kept as the API gave them, neither cut nor padded.
finalQuestionsAsGiven(generatedQuestions, numQuestions) == generatedQuestions

\* finalQuestions before the map (lines 185-196)
finalQuestions(generatedQuestions, numQuestions) ==
    IF Len(generatedQuestions) >= numQuestions
    THEN SubSeq(generatedQuestions, 1, numQuestions)
    ELSE generatedQuestions
             \o createDefaultQuestions(numQuestions - Len(generatedQuestions))

\* The callback of finalQuestions.map (lines 199-204)
withRequiredFields(q) ==
    [q EXCEPT !.question = IF @ = "none" THEN "filled" ELSE @,
              !.purpose = IF @ = "none" THEN "filled" ELSE @,
              !.follow_ups = IF @ = "none" THEN "filled" ELSE @]

\* opening_questions of the value returned for API outcome a when n
\* questions are wanted; reading a field of a null element throws into
\* the catch of the parse (lines 213-220).
openingQuestions(a, n) ==
    IF a.kind # "array" \/ a.items = <<>>
    THEN createDefaultQuestions(n)
    ELSE LET final == finalQuestions(a.items, n)
         IN IF \E i \in 1..Len(final) : final[i].kind = "null"
            THEN createDefaultQuestions(n)
            ELSE [i \in 1..Len(final) |-> withRequiredFields(final[i])]

NoGen == [st |-> "none", numQuestions |-> NoCount,
          api |-> ApiOutcome("no key", <<>>), out |-> <<>>]

\* generateInterviewQuestions (lines 68-230)
generateInterviewQuestions(numQuestions, a) ==
    /\ gen.st = "none"
    /\ gen' = [st |-> "returned", numQuestions |-> numQuestions, api |-> a,
               out |-> openingQuestions(a, validNumQuestions(numQuestions))]
    /\ UNCHANGED notGen
    /\ UNCHANGED <<clientVars, serverVars, conv>>

----------------------------------------------------------------------------
(* Specifications.                                                         *)

\* The service as constructed (lines 206-207); the calls in `active` are
\* going to be made, the others never are.
ClientInitWith(active) ==
    /\ pc = [c \in Calls |-> IF c \in active THEN "idle" ELSE "off"]
    /\ file = [c \in Calls |-> NoFile]
    /\ net = [c \in Calls |-> Idle]
    /\ remoteOutcome = [c \in Calls |-> Idle]
    /\ localCalls = [c \in Calls |-> 0]
    /\ localOutcome = [c \in Calls |-> NotCalled]
    /\ result = [c \in Calls |-> NoResult]
    /\ err = [c \in Calls |-> <<>>]
    /\ log = [c \in Calls |-> <<>>]
    /\ model = [c \in Calls |-> 0]
    /\ url = [c \in Calls |-> "none"]
    /\ transcriber = 0
    /\ loading = FALSE
    /\ pipelines = 0

ServerInit ==
    /\ srv = [c \in Calls |-> "idle"]
    /\ child = [c \in Calls |-> NoChild]
    /\ outputData = [c \in Calls |-> <<>>]
    /\ errorData = [c \in Calls |-> <<>>]
    /\ upload = [c \in Calls |-> FALSE]
    /\ res = [c \in Calls |-> NoRes]
    /\ outcome = [c \in Calls |-> NoOutcome]

ClientInit == ClientInitWith(Calls)

ConvInit == conv = NoConv

\* The module state of the pages/api handler; the requests in `active`
\* are going to arrive, the others never do.
ApiInitWith(active) ==
    /\ api = [r \in Requests |->
                IF r \in active THEN NoApi ELSE [NoApi EXCEPT !.pc = "off"]]
    /\ modelDownloaded = FALSE

SideInitWith(active) ==
    /\ ApiInitWith(active)
    /\ wavc = [k \in Conversions |-> NoWav]
    /\ pcm = NoPcm
    /\ asm = NoAsm
    /\ arrived = [c \in Calls |-> <<>>]
    /\ disk = [p \in Paths |-> "none"]
    /\ now = 0
    /\ ui = NoUi
    /\ gen = NoGen

SideInit == SideInitWith(Requests)

Init == ClientInit /\ ServerInit /\ ConvInit /\ SideInit

\* The steps of call c that do not depend on another call.
SoloStep(c) ==
    \/ \E f \in Files : Start(c, f)
    \/ RemoteReturn(c)
    \/ AxiosTimeout(c)
    \/ LoadSucceeds(c)
    \/ LoadFails(c)
    \/ CanPlayThrough(c)
    \/ \E r \in LocalResults : InferSucceeds(c, r)
    \/ InferFails(c)
    \/ AltPipelineSucceeds(c)
    \/ AltPipelineFails(c)
    \/ \E t \in AltTexts : AltInferSucceeds(c, t)
    \/ AltInferFails(c)

ClientStep(c) == SoloStep(c) \/ Wake(c)

Next ==
    \E c \in Calls :
        \/ ClientStep(c)
        \/ \E r \in Responses : EndpointResponds(c, r)

\* Concurrent transcribeAudio calls against an arbitrary endpoint.
Spec == Init /\ [][Next]_vars

\* The steps of the server on the request of call c.
ServerStep(c) ==
    \/ \E hasFile, pythonEnv \in BOOLEAN : Receive(c, hasFile, pythonEnv)
    \/ \E r \in WhisperResults : StdoutData(c, r)
    \/ StderrData(c)
    \/ ChildRaises(c)
    \/ ChildExits(c)
    \/ ChildHangs(c)
    \/ ChildKilled(c)
    \/ WhisperClose(c)
    \/ WhisperError(c)

\* One transcribeAudio call whose endpoint is the express server (a single
\* caller never finds a load in progress, so it never sleeps).
E2EInit == ClientInitWith({1}) /\ ServerInit /\ ConvInit /\ SideInit

E2ENext == \E c \in Calls : SoloStep(c) \/ ServerStep(c)

\* transcribeLocally and convertToFloat32Array, the two backend calls of
\* the service that acquire a browser resource.
ResourceNext == ConvStep \/ Next

Resources == Init /\ [][ResourceNext]_vars

E2E == E2EInit /\ [][E2ENext]_vars

\* Both upload handlers, each on one request: the express server behind
\* one transcribeAudio call, and the pages/api handler.
UploadsInit == ClientInitWith({1}) /\ ServerInit /\ ConvInit /\ SideInitWith({1})

UploadsNext ==
    \/ \E c \in Calls : SoloStep(c) \/ ServerStep(c)
    \/ \E r \in Requests : ApiStep(r)

Uploads == UploadsInit /\ [][UploadsNext]_vars

\* One transcribeAudio call against the express server, whose child
\* process writes and exits as it likes.
AnyChildNext == \E c \in Calls : SoloStep(c) \/ AnyChildStep(c)

AnyChild == E2EInit /\ [][AnyChildNext]_vars

\* Concurrent requests to the pages/api handler.
ApiNext == \E r \in Requests : ApiStep(r)

Api == Init /\ [][ApiNext]_vars

\* Concurrent convertAudioToWav calls.
WavNext == Tick \/ \E k \in Conversions : WavStep(k)

Wav == Init /\ [][WavNext]_vars

\* convertToFloat32Array on every decoded buffer.
NormalizerNext ==
    /\ pcm.st = "none"
    /\ \E rawData \in Buffers, rate \in SampleRates : convertToFloat32Array(rawData, rate)

Normalizer == Init /\ [][NormalizerNext]_vars

\* The interview page from its settings form to the analysis view.
Interview == Init /\ [][InterviewNext]_vars

\* generateInterviewQuestions on every count and every API outcome.
QuestionsNext ==
    /\ gen.st = "none"
    /\ \E n \in NumQuestionsInputs, a \in ApiOutcomes : generateInterviewQuestions(n, a)

Questions == Init /\ [][QuestionsNext]_vars

\* The chunk assembly of the two client backends on every raw output.
AssemblyNext ==
    \/ asm.st = "none" /\ \E a \in SarvamAnswers : transcribeWithSarvam(a.reply, a.fields)
    \/ asm.st = "none" /\ \E cs \in PipelineChunkLists : LocalChunks(cs)
    \/ asm.st = "none" /\ \E r \in Responses : RemoteChunks(r)

Assembly == Init /\ [][AssemblyNext]_vars

\* The event loop runs every continuation that is ready, every timer
\* fires, and the endpoint and the child process are as helpful as they
\* can be: every step that stays possible is eventually taken.
FairSpec ==
    Spec /\ \A c \in Calls :
                WF_vars(ClientStep(c) \/ \E r \in Responses : EndpointResponds(c, r))

FairE2E ==
    E2E /\ \A c \in Calls : WF_vars(SoloStep(c)) /\ WF_vars(ServerStep(c))

----------------------------------------------------------------------------
(* Properties of the fallback chain of transcribeAudio.                   *)

Terminated(c) == pc[c] \in {"returned", "threw"}

\* Empty or whitespace-only.
IsBlank(s) == \A i \in 1..Len(s) : s[i] \in {" ", "\t", "\n"}

\* The remote attempt of call c ended in success with a non-empty text.
RemoteSucceeded(c) ==
    /\ remoteOutcome[c].st = "resp"
    /\ remoteOutcome[c].status \in 200..299
    /\ remoteOutcome[c].text.defined
    /\ Len(remoteOutcome[c].text.str) > 0

\* The remote attempt of call c ended, and not in such a success.
RemoteFailed(c) == remoteOutcome[c].st # "none" /\ ~RemoteSucceeded(c)

\* C1: the call returns the text of the first backend, in the order remote
\* then local, that succeeded with a non-empty text; the local backend is
\* invoked only after the remote attempt has failed, at most once, and never
\* after a remote success.
C1_FirstSuccessReturned ==
    \A c \in Calls :
        /\ RemoteSucceeded(c) =>
              /\ pc[c] = "returned"
              /\ result[c].text = remoteOutcome[c].text.str
              /\ localCalls[c] = 0
        /\ localCalls[c] > 0 => RemoteFailed(c)
        /\ localCalls[c] <= 1
        /\ (RemoteFailed(c) /\ localOutcome[c].st = "ok"
                            /\ Len(localOutcome[c].text) > 0) =>
              /\ pc[c] = "returned"
              /\ result[c].text = localOutcome[c].text

\* One call answered by the remote backend without the local one being
\* invoked, another answered by the local backend after the remote failed.
C1_Witness ==
    \E c, d \in Calls :
        /\ RemoteSucceeded(c) /\ pc[c] = "returned" /\ result[c].text = Hi
        /\ localCalls[c] = 0
        /\ RemoteFailed(d) /\ pc[d] = "returned" /\ result[d].text = Hello
        /\ localCalls[d] = 1

\* C2: an attempt that yields empty or whitespace-only text is treated like
\* a failed attempt: after a blank remote answer the local backend is tried,
\* and no call returns a transcript whose text is empty or whitespace-only.
C2_BlankTextRejected ==
    \A c \in Calls :
        /\ (remoteOutcome[c].st = "resp" /\ remoteOutcome[c].status \in 200..299
              /\ remoteOutcome[c].text.defined /\ IsBlank(remoteOutcome[c].text.str))
             => localCalls[c] = 1
        /\ pc[c] = "returned" => ~IsBlank(result[c].text)

\* s holds d as a contiguous part.
Carries(s, d) ==
    \E i \in 1..(Len(s) - Len(d) + 1) : SubSeq(s, i, i + Len(d) - 1) = d

\* The console lines of call c about backend b.
AttemptEntries(c, b) == SelectSeq(log[c], LAMBDA e : e.backend = b)

\* C3: every failed backend attempt is recorded as exactly one entry, in the
\* order tried, and when both backends have failed the error thrown carries
\* the failure detail of every attempted backend, the remote one included.
C3_ErrorCarriesAttemptLog ==
    \A c \in Calls :
        (pc[c] = "threw" /\ localCalls[c] > 0) =>
            /\ Len(AttemptEntries(c, "remote")) = 1
            /\ Len(AttemptEntries(c, "local")) = 1
            /\ log[c][1].backend = "remote"
            /\ Carries(err[c], RemoteFailure(remoteOutcome[c]))
            /\ Carries(err[c], localOutcome[c].text)

\* C4: a transcript returned as success holds a text one of the backends
\* produced during that request; when every backend has failed the call
\* ends in a thrown error and no transcript is returned.
C4_NoFabricatedTranscript ==
    \A c \in Calls :
        /\ pc[c] = "returned" =>
              \/ /\ remoteOutcome[c].st = "resp"
                 /\ remoteOutcome[c].text.defined
                 /\ result[c].text = remoteOutcome[c].text.str
              \/ /\ localOutcome[c].st = "ok"
                 /\ result[c].text = localOutcome[c].text
        /\ (RemoteFailed(c) /\ localOutcome[c].st = "failed") =>
              /\ pc[c] = "threw"
              /\ err[c] # <<>>
        /\ pc[c] # "returned" => result[c] = NoResult

\* Both backends of a call have failed and the call has thrown.
C4_Witness ==
    \E c \in Calls :
        /\ RemoteFailed(c) /\ localOutcome[c].st = "failed"
        /\ pc[c] = "threw" /\ result[c] = NoResult

----------------------------------------------------------------------------
(* Properties of the shared model instance.                               *)

\* The calls whose pipeline() construction inside loadModel is in progress.
Loading == {c \in Calls : pc[c] = "loading"}

\* C8: at most one model load of loadModel is in progress at any time; a
\* caller that finds a load in progress waits instead of loading; every
\* caller that loadModel answered holds the one cached instance.
C8_LoadsCoalesce ==
    /\ Cardinality(Loading) <= 1
    /\ loading <=> Loading # {}
    /\ \A c \in Calls : pc[c] = "sleep" => model[c] = 0
    /\ \A c \in Calls : model[c] # 0 => model[c] = transcriber
    /\ \A c, d \in Calls : (model[c] # 0 /\ model[d] # 0) => model[c] = model[d]

\* A caller has arrived while another caller's load is in progress: it
\* sleeps, and the load in progress is the only one that was started.
C8_Witness ==
    \E c, d \in Calls :
        /\ c # d
        /\ pc[c] = "loading" /\ pc[d] = "sleep"
        /\ localCalls[d] = 1
        /\ pipelines = 1

\* C9: once a model load has succeeded, no later local transcription
\* constructs or loads a model again.
C9_LoadedOnce == [][transcriber # 0 => pipelines' = pipelines]_vars

\* C10: no resource outlives the call that acquired it: when
\* convertToFloat32Array has returned or thrown, the AudioContext it
\* created is closed, and when transcribeLocally has returned or thrown,
\* the object URL it created has been revoked.
C10_NoResourceOutlivesCall ==
    /\ conv.pc \in {"resolved", "rejected"} => conv.ctx \in {"none", "closed"}
    /\ \A c \in Calls :
          localOutcome[c].st \in {"ok", "failed"} => url[c] \in {"none", "revoked"}

----------------------------------------------------------------------------
(* Properties of timeouts and of attempts in flight.                      *)

\* transcribeLocally of call c is running.
LocalInFlight(c) == localOutcome[c].st = "pending"

\* C5: at most one backend attempt of a request is in flight at any time:
\* the local backend runs only after the remote attempt has ended, and the
\* Whisper child process the server started for the request is not running
\* while the local backend runs.
C5_OneAttemptInFlight ==
    \A c \in Calls :
        LocalInFlight(c) =>
            /\ remoteOutcome[c].st # "none"
            /\ pc[c] # "remote"
            /\ child[c].st \notin {"running", "hung"}

\* C6: every call of transcribeAudio that was started eventually returns a
\* transcript or throws.
C6_EveryCallSettles ==
    \A c \in Calls : (pc[c] = "remote") ~> Terminated(c)

\* C7: transcribeWithWhisper never stays pending on its child process: a
\* request for which the child was spawned is eventually finished, with the
\* child gone and the upload removed.
C7_SubprocessRunEnds ==
    \A c \in Calls :
        (srv[c] = "whisper") ~>
            (srv[c] = "done" /\ child[c].st = "closed" /\ ~upload[c])

----------------------------------------------------------------------------
(* Properties of the temp files of the server.                             *)

\* C11: once a handler has finished with an upload, the uploaded temp file
\* is gone, whether the transcription succeeded or failed: for the express
\* handler after a spawn error, a missing Python environment, a non-zero
\* exit, output that does not parse or holds an error; for the pages/api
\* handler after an unsupported extension or a failed transcription.
C11_UploadRemoved ==
    /\ \A c \in Calls : srv[c] = "done" => ~upload[c]
    /\ \A r \in Requests : api[r].pc = "done" => ~api[r].tmp

\* Both handlers have finished after a transcription that failed: the
\* child of the express handler exited with a non-zero code, and the
\* pages/api handler answered 500 after it had called whisper.
C11_Witness ==
    /\ srv[1] = "done" /\ child[1].st = "closed" /\ child[1].code # 0
    /\ outcome[1].st = "failed" /\ ~upload[1]
    /\ api[1].pc = "done" /\ api[1].calls = 1 /\ api[1].status = 500

\* C12: when convertAudioToWav has failed, neither of its two temp files
\* exists any more; when it has succeeded, the input file is gone and the
\* output file is there.
C12_TempFilesRemoved ==
    \A k \in Conversions :
        /\ (wavc[k].pc = "rejected" /\ wavc[k].paths) =>
              /\ disk[inputPath(wavc[k])] = "none"
              /\ disk[outputPath(wavc[k])] = "none"
        /\ wavc[k].pc = "resolved" =>
              /\ disk[inputPath(wavc[k])] = "none"
              /\ disk[outputPath(wavc[k])] = "full"

----------------------------------------------------------------------------
(* Properties of the input validation.                                     *)

\* C13: a request to the upload handler whose file is larger than 25 MB
\* has started no model download and no transcription, and is answered
\* with an error.
C13_OversizeRejectedFirst ==
    \A r \in Requests :
        api[r].req.size > 25 * 1024 * 1024 =>
            /\ api[r].downloads = 0
            /\ api[r].calls = 0
            /\ api[r].pc = "done" => api[r].status >= 400

\* C14: a call whose file reached a backend (the request was posted, or
\* transcribeLocally was called) has a file whose declared type is one of
\* audio/wav, audio/mp3, audio/mpeg.
C14_OnlySupportedTypes ==
    \A c \in Calls :
        (net[c].st # "none" \/ localCalls[c] > 0) => file[c].type \in supportedFormats

----------------------------------------------------------------------------
(* Properties of the Whisper subprocess.                                   *)

\* C15: when the Whisper child has closed with a non-zero exit code, the
\* promise of transcribeWithWhisper is rejected, whatever stdout holds, and
\* the rejection's message is 'Whisper process failed: ' followed by all
\* of the stderr data accumulated.
C15_NonZeroExitRejects ==
    \A c \in Calls :
        (child[c].st = "closed" /\ child[c].code # 0) =>
            /\ outcome[c].st = "failed"
            /\ outcome[c].msg = "Whisper process failed: "
            /\ outcome[c].detail = errorData[c]

\* The child wrote all its progress lines and its result to stdout and
\* something to stderr, and then closed with a non-zero code.
C15_Witness ==
    /\ child[1].st = "closed" /\ child[1].code # 0
    /\ Len(outputData[1]) = Len(ProgressLines) + 1
    /\ Len(errorData[1]) > 0
    /\ outcome[1].st = "failed"

----------------------------------------------------------------------------
(* Properties of the sample buffer of convertToFloat32Array.               *)

\* The largest absolute numerator among the samples.
PeakNum(samples) ==
    LET S == { Abs(samples[i].num) : i \in 1..Len(samples) } \cup {0}
    IN CHOOSE m \in S : \A x \in S : x <= m

\* C16: the returned buffer, when it holds a sample at all, has a maximum
\* absolute sample of exactly 1, or of 0 when the input is all-zero, and
\* an all-zero input gives an all-zero output.
C16_PeakIsOneOrSilence ==
    pcm.st = "returned" =>
        /\ MaxAbs(pcm.raw) = 0 => PeakNum(pcm.out) = 0
        /\ (MaxAbs(pcm.raw) # 0 /\ Len(pcm.out) > 0) =>
              \E i \in 1..Len(pcm.out) : Abs(pcm.out[i].num) = pcm.out[i].den

\* floor(i * rate / TargetRate), said without a division.
FloorIndex(i, rate) ==
    CHOOSE n \in 0..(i * rate) : n * TargetRate <= i * rate /\ i * rate < (n + 1) * TargetRate

\* C17: resampling is nearest-neighbour: output sample i is
\* normalizedData[floor(i / ratio)] and that index lies in the source;
\* at the target rate the output is the normalized input; at twice the
\* target rate the output has length floor(sourceLength / 2) and
\* output[i] = normalizedData[2i].
C17_NearestNeighbour ==
    pcm.st = "returned" =>
        LET norm == normalizedData(pcm.raw)
        IN /\ pcm.rate = TargetRate => pcm.out = norm
           /\ pcm.rate = 2 * TargetRate =>
                 /\ Len(pcm.out) = Len(pcm.raw) \div 2
                 /\ \A i \in 0..(Len(pcm.out) - 1) : pcm.out[i + 1] = norm[2 * i + 1]
           /\ pcm.rate # TargetRate =>
                 \A i \in 0..(Len(pcm.out) - 1) :
                     /\ FloorIndex(i, pcm.rate) < Len(norm)
                     /\ pcm.out[i + 1] = norm[FloorIndex(i, pcm.rate) + 1]

\* Three distinct samples at twice the target rate were resampled to one.
C17_Witness ==
    /\ pcm.st = "returned" /\ pcm.rate = 2 * TargetRate
    /\ pcm.raw = <<1, 2, 0 - 1>> /\ Len(pcm.out) = 1

\* round(a / b) for a >= 0, b > 0, as Math.round rounds (half up).
Round(a, b) == (2 * a + b) \div (2 * b)

\* C18: when the source rate differs from the target rate, the resampled
\* buffer has length round(sourceLength * targetRate / sourceRate).
C18_RoundedLength ==
    (pcm.st = "returned" /\ pcm.rate # TargetRate) =>
        Len(pcm.out) = Round(Len(pcm.raw) * TargetRate, pcm.rate)

----------------------------------------------------------------------------
(* Properties of the assembled chunk lists.                                *)

\* C19: every chunk list a backend call returned is chronologically
\* well-formed: each chunk has 0 <= start <= end, and each chunk's start
\* is at or after the previous chunk's end.
C19_ChunksChronological ==
    asm.st = "returned" =>
        \A i \in 1..Len(asm.chunks) :
            LET ch == asm.chunks[i]
            IN /\ ch.start.defined /\ ch.end.defined
               /\ 0 <= ch.start.val /\ ch.start.val <= ch.end.val
               /\ i > 1 => /\ asm.chunks[i - 1].end.defined
                           /\ ch.start.val >= asm.chunks[i - 1].end.val

\* The number of words of a text: the places where a word begins.
WordCount(text) ==
    Cardinality({ i \in 1..Len(text) :
                    text[i] # " " /\ (i = 1 \/ text[i - 1] = " ") })

\* C20: in a remote segment the start is `start`, else timestamp[0]; an
\* end the backend supplies (`end`, else timestamp[1]) is used as it is,
\* and only without one is the end start + wordCount(text) * 0.3.
C20_SegmentTimes ==
    (asm.kind = "sarvam" /\ asm.st = "returned") =>
        \A i \in 1..Len(asm.raw) :
            LET seg == asm.raw[i]
                ch == asm.chunks[i]
            IN /\ seg.start.defined => ch.start = seg.start
               /\ (~seg.start.defined /\ seg.timestamp.defined) =>
                     ch.start = seg.timestamp.from
               /\ seg.end.defined => ch.end = seg.end
               /\ (~seg.end.defined /\ seg.timestamp.defined) =>
                     ch.end = seg.timestamp.to
               /\ (~seg.end.defined /\ ~seg.timestamp.defined) =>
                     ch.end = Num(ch.start.val + WordCount(seg.text.str) * 3)

\* A field of the reply that holds a non-empty string.
Present(v) == Truthy(v)

\* The first of `text`, `transcript`, `transcription` that is present.
FirstText(d) ==
    IF Present(d.text) THEN d.text.str
    ELSE IF Present(d.transcript) THEN d.transcript.str
    ELSE d.transcription.str

----------------------------------------------------------------------------
(* Properties of concurrent requests.                                      *)

\* C27: no two convertAudioToWav calls in flight use the same temp input
\* path or the same temp output path.
C27_DistinctTempPaths ==
    \A j, k \in Conversions :
        (j # k /\ wavc[j].pc = "converting" /\ wavc[k].pc = "converting") =>
            /\ inputPath(wavc[j]) # inputPath(wavc[k])
            /\ outputPath(wavc[j]) # outputPath(wavc[k])

\* The requests to the pages/api handler that started a model download.
Downloaders == { r \in Requests : api[r].downloads > 0 }

\* C28: as long as no model download has failed, initializeModel has
\* started at most one download, whatever the number of requests.
C28_OneDownload ==
    (\A r \in Requests : ~api[r].failed) => Cardinality(Downloaders) <= 1

----------------------------------------------------------------------------
(* Properties of the responses of the server.                              *)

C22_FailureStatus ==
    \A c \in Calls :
        srv[c] = "done" =>
            /\ outcome[c].st = "failed" =>
                  /\ res[c].status = 500
                  /\ res[c].body = <<MessageBody>>
            /\ outcome[c].st = "none" => res[c].status = 400
            /\ res[c].status \in 200..299 => outcome[c].st = "ok"

\* The stdout data holds a result of the expected schema.
HoldsResult(data) ==
    \E i \in 1..Len(data) : data[i].kind = "json" /\ ~data[i].error

\* The result the stdout data holds.
ResultOf(data) ==
    data[CHOOSE i \in 1..Len(data) : data[i].kind = "json" /\ ~data[i].error]

\* C23: when the child has exited with code 0 and its stdout holds the
\* progress lines of the script followed by the JSON result,
\* transcribeWithWhisper resolves with the result's text and one entry
\* per segment; it rejects with a parse failure only when the stdout
\* holds no result.
C23_ResultAfterProgressLines ==
    \A c \in Calls :
        (child[c].st = "closed" /\ child[c].code = 0) =>
            /\ HoldsResult(outputData[c]) =>
                  /\ outcome[c].st = "ok"
                  /\ res[c].body[1].text = ResultOf(outputData[c]).text
                  /\ Len(res[c].body[1].chunks.list) =
                         Len(ResultOf(outputData[c]).segments)
            /\ outcome[c].msg = "Failed to parse Whisper output: " =>
                  ~HoldsResult(outputData[c])

\* The chunks of one stream of the child of call c, in arrival order.
StreamChunks(c, stream) ==
    LET events == SelectSeq(arrived[c], LAMBDA e : e.stream = stream)
    IN [i \in 1..Len(events) |-> events[i].chunk]

\* C24: for every interleaving of the child's stdout, stderr, exit and
\* error events, the stdout buffer is the stdout chunks in arrival order
\* and the stderr buffer the stderr chunks in arrival order, at every
\* moment and so when the child has closed: no chunk is lost or lands in
\* the other buffer.
C24_BuffersComplete ==
    \A c \in Calls :
        /\ outputData[c] = StreamChunks(c, "stdout")
        /\ errorData[c] = StreamChunks(c, "stderr")

\* The child has closed after a stdout chunk, a stderr chunk and another
\* stdout chunk, in this order.
C24_Witness ==
    /\ child[1].st = "closed"
    /\ Len(arrived[1]) = 3
    /\ arrived[1][1].stream = "stdout"
    /\ arrived[1][2].stream = "stderr"
    /\ arrived[1][3].stream = "stdout"
    /\ Len(outputData[1]) = 2 /\ Len(errorData[1]) = 1

----------------------------------------------------------------------------
(* Properties of the interview session.                                    *)

\* answers.length + remainingQuestions.length + (1 if there is a current
\* question), for session s.
Accounted(s) ==
    Len(s.answers) + Len(s.remainingQuestions)
        + (IF s.currentQuestion # 0 THEN 1 ELSE 0)

\* What C29 says of one step of the page.
C29_Step ==
    (ui'.interviewMode = "give" /\ ui'.session.active) =>
        /\ ui'.session.totalQuestions >= 1
        /\ Accounted(ui'.session) = ui'.session.totalQuestions
        /\ ui.session.active =>
              ui'.session.totalQuestions = ui.session.totalQuestions
        /\ (ui.session.active /\ Len(Trim(ui.currentAnswer)) < 10) =>
              ui'.session = ui.session
        /\ (ui.session.active /\ ui'.session # ui.session) =>
              /\ ui.session.currentQuestion # 0
              /\ ui'.session.answers =
                     Append(ui.session.answers,
                            [question |-> ui.session.currentQuestion,
                             answer |-> Trim(ui.currentAnswer)])
        /\ ui'.isComplete <=>
              Len(ui'.session.answers) = ui'.session.totalQuestions

----------------------------------------------------------------------------
(* Properties of the question generator.                                   *)

\* C30: generateInterviewQuestions returns exactly n questions, each with
\* a question, a purpose and a follow_ups list, n being numQuestions when
\* it is an integer from 1 to 10 and 3 otherwise, for every outcome of
\* the generative API; a longer answer of the API is cut to its first n
\* questions, a shorter one is followed by default questions.
C30_ExactlyNQuestions ==
    gen.st = "returned" =>
        LET n == IF gen.numQuestions.kind = "int" /\ gen.numQuestions.val \in 1..10
                 THEN gen.numQuestions.val ELSE 3
            given == gen.api.items
            usable == /\ gen.api.kind = "array" /\ given # <<>>
                      /\ \A i \in 1..Len(given) : i <= n => given[i].kind # "null"
        IN /\ Len(gen.out) = n
           /\ \A i \in 1..Len(gen.out) :
                 /\ gen.out[i].kind # "null"
                 /\ gen.out[i].question # "none"
                 /\ gen.out[i].purpose # "none"
                 /\ gen.out[i].follow_ups # "none"
           /\ usable =>
                 \A i \in 1..n :
                     IF i <= Len(given)
                     THEN /\ gen.out[i].kind = "object"
                          /\ given[i].question # "none" =>
                                gen.out[i].question = given[i].question
                     ELSE gen.out[i].kind = "default"
           /\ ~usable => \A i \in 1..n : gen.out[i].kind = "default"

\* Four questions were asked for and the API answered with two: the
\* result is these two followed by two default questions.
C30_Witness ==
    /\ gen.st = "returned"
    /\ gen.numQuestions = Count(4)
    /\ gen.api.kind = "array" /\ Len(gen.api.items) = 2
    /\ Len(gen.out) = 4
    /\ gen.out[2].kind = "object" /\ gen.out[3].kind = "default"

====
